---- MODULE Spec2Model ----
(***************************************************************************)
(* A model of the entry storage and ontology core of forte: the ordering   *)
(* of Annotation entries, the type-partitioned Entry Store of a pack, the  *)
(* coverage query, and the reference fields of Link and Group entries.     *)
(***************************************************************************)
EXTENDS Integers, Sequences, FiniteSets, TLC

VARIABLES
    lt_call,        \* the last comparison a < b: its operands and its result
    elements,       \* DataStore.__elements: type name -> partition (rows)
    tid_idx_dict,   \* DataStore.__tid_idx_dict: tid -> <<type name, index>>
    next_tid,       \* the tid counter of the pack
    returned,       \* history: the tids add_entry_raw returned, in call order
    deleted,        \* history: the tids delete_entry succeeded on
    obj,            \* a Link, MultiPackLink, Group, MultiPackGroup or Box object
    call,           \* the last call made: method, argument, result, error raised
    packs,          \* MultiPack.packs: the packs attached, by position
    pack_entries    \* pack_id -> the tids the Entry Store of that pack holds

vars == <<lt_call, elements, tid_idx_dict, next_tid, returned, deleted,
          obj, call, packs, pack_entries>>

store_vars == <<elements, tid_idx_dict, next_tid, returned, deleted>>
ref_vars == <<obj, call>>
multi_vars == <<packs, pack_entries>>

(***************************************************************************)
(* Bounds of the model.                                                    *)
(***************************************************************************)
MaxNameLen == 2     \* longest type name drawn for a comparison
MaxCmpOffset == 1   \* largest begin/end drawn for a comparison
MaxOffset == 1      \* largest begin/end of an entry in the store
MaxTid == 3         \* number of tids a pack hands out
MaxLinkTid == 2     \* number of tids handed out by a pack whose links are set
MaxMembers == 2     \* longest member list of a group
MaxCoord == 3       \* largest row or column index of a corner of a box
MaxBoxes == 1       \* number of Box constructions on a pack

\* Python's None, for an offset or a reference that is not set.
None == -1

(***************************************************************************)
(* Strings.  A Python str is a sequence of character codes; s < t is the   *)
(* lexicographic order on the codes, a proper prefix sorting first.        *)
(***************************************************************************)
RECURSIVE StrLt(_, _)
StrLt(s, t) ==
    IF t = <<>> THEN FALSE
    ELSE IF s = <<>> THEN TRUE
    ELSE IF Head(s) = Head(t) THEN StrLt(Tail(s), Tail(t))
    ELSE Head(s) < Head(t)

\* str(type(x)) for an object of the class named `name`: "<class 'name'>".
str_type(name) ==
    <<60, 99, 108, 97, 115, 115, 32, 39>> \o name \o <<39, 62>>

(***************************************************************************)
(* Annotation.__lt__ and AudioAnnotation.__lt__.  An annotation is a       *)
(* record with begin, end and type (the name of its class).                *)
(***************************************************************************)
\* Annotation.__lt__ without the tie-break on the class name.
MutAnnotationLtNoTieBreak(self, other) ==
    IF self.begin = other.begin
    THEN self.end < other.end
    ELSE self.begin < other.begin

\* Annotation.__lt__ with the comparison of the begins reversed.
MutAnnotationLtBeginReversed(self, other) ==
    IF self.begin = other.begin
    THEN IF self.end = other.end
         THEN StrLt(str_type(self.type), str_type(other.type))
         ELSE self.end < other.end
    ELSE self.begin > other.begin

Annotation_lt(self, other) ==
    IF self.begin = other.begin
    THEN IF self.end = other.end
         THEN StrLt(str_type(self.type), str_type(other.type))
         ELSE self.end < other.end
    ELSE self.begin < other.begin

AudioAnnotation_lt(self, other) ==
    IF self.begin = other.begin
    THEN IF self.end = other.end
         THEN StrLt(str_type(self.type), str_type(other.type))
         ELSE self.end < other.end
    ELSE self.begin < other.begin

\* The characters drawn for type names: '.', '0', 'A' and '_'.
NameChars == {46, 48, 65, 95}

RECURSIVE NamesUpTo(_)
NamesUpTo(n) ==
    IF n = 0 THEN {<<>>}
    ELSE LET shorter == NamesUpTo(n - 1)
         IN  shorter \cup {Append(s, c) : s \in shorter, c \in NameChars}

CmpNames == NamesUpTo(MaxNameLen) \ {<<>>}

CmpAnnotations ==
    [begin : 0..MaxCmpOffset, end : 0..MaxCmpOffset, type : CmpNames]

NoCall == [kind |-> "none"]


(***************************************************************************)
(* Classes.  A class is named by its full module name.                     *)
(***************************************************************************)
EntryType == "forte.data.ontology.core.Entry"
AnnotationType == "forte.data.ontology.top.Annotation"
LinkType == "forte.data.ontology.top.Link"
SentenceType == "ft.onto.base_ontology.Sentence"
TokenType == "ft.onto.base_ontology.Token"
EntityMentionType == "ft.onto.base_ontology.EntityMention"
DependencyType == "ft.onto.base_ontology.Dependency"
GroupType == "forte.data.ontology.top.Group"
CoreferenceGroupType == "ft.onto.base_ontology.CoreferenceGroup"
MultiPackLinkType == "forte.data.ontology.top.MultiPackLink"
MultiPackGroupType == "forte.data.ontology.top.MultiPackGroup"
CrossDocEntityRelationType == "ft.onto.base_ontology.CrossDocEntityRelation"
ImageAnnotationType == "forte.data.ontology.top.ImageAnnotation"
RegionType == "forte.data.ontology.top.Region"
BoxType == "forte.data.ontology.top.Box"
PayloadType == "forte.data.ontology.top.Payload"
TextPayloadType == "ft.onto.base_ontology.TextPayload"
AudioPayloadType == "ft.onto.base_ontology.AudioPayload"
ImagePayloadType == "ft.onto.base_ontology.ImagePayload"
\* The class of a value that is no Entry.
ObjectType == "builtins.object"

\* The characters of a class name.
ClassChars(name) ==
    CASE name = EntryType ->
           <<102, 111, 114, 116, 101, 46, 100, 97, 116, 97, 46, 111, 110,
             116, 111, 108, 111, 103, 121, 46, 99, 111, 114, 101, 46, 69,
             110, 116, 114, 121>>
      [] name = AnnotationType ->
           <<102, 111, 114, 116, 101, 46, 100, 97, 116, 97, 46, 111, 110,
             116, 111, 108, 111, 103, 121, 46, 116, 111, 112, 46, 65, 110,
             110, 111, 116, 97, 116, 105, 111, 110>>
      [] name = LinkType ->
           <<102, 111, 114, 116, 101, 46, 100, 97, 116, 97, 46, 111, 110,
             116, 111, 108, 111, 103, 121, 46, 116, 111, 112, 46, 76, 105,
             110, 107>>
      [] name = SentenceType ->
           <<102, 116, 46, 111, 110, 116, 111, 46, 98, 97, 115, 101, 95,
             111, 110, 116, 111, 108, 111, 103, 121, 46, 83, 101, 110, 116,
             101, 110, 99, 101>>
      [] name = TokenType ->
           <<102, 116, 46, 111, 110, 116, 111, 46, 98, 97, 115, 101, 95,
             111, 110, 116, 111, 108, 111, 103, 121, 46, 84, 111, 107, 101,
             110>>
      [] name = EntityMentionType ->
           <<102, 116, 46, 111, 110, 116, 111, 46, 98, 97, 115, 101, 95,
             111, 110, 116, 111, 108, 111, 103, 121, 46, 69, 110, 116, 105,
             116, 121, 77, 101, 110, 116, 105, 111, 110>>
      [] name = TextPayloadType ->
           <<102, 116, 46, 111, 110, 116, 111, 46, 98, 97, 115, 101, 95,
             111, 110, 116, 111, 108, 111, 103, 121, 46, 84, 101, 120, 116,
             80, 97, 121, 108, 111, 97, 100>>

\* The direct base class of a class (Entry has none).
BaseOf(name) ==
    CASE name = AnnotationType -> EntryType
      [] name = LinkType -> EntryType
      [] name = SentenceType -> AnnotationType
      [] name = TokenType -> AnnotationType
      [] name = EntityMentionType -> AnnotationType
      [] name = DependencyType -> LinkType
      [] name = GroupType -> EntryType
      [] name = CoreferenceGroupType -> GroupType
      [] name = MultiPackLinkType -> EntryType
      [] name = MultiPackGroupType -> EntryType
      [] name = CrossDocEntityRelationType -> MultiPackLinkType
      [] name = ImageAnnotationType -> EntryType
      [] name = RegionType -> ImageAnnotationType
      [] name = BoxType -> RegionType
      [] name = PayloadType -> EntryType
      [] name = TextPayloadType -> PayloadType
      [] name = AudioPayloadType -> PayloadType
      [] name = ImagePayloadType -> PayloadType
      [] OTHER -> ""

RECURSIVE issubclass(_, _)
issubclass(name, cls) ==
    IF name = cls THEN TRUE
    ELSE IF BaseOf(name) = "" THEN FALSE
    ELSE issubclass(BaseOf(name), cls)

\* The types whose entries a pack of the model stores.
StoreTypes == {SentenceType, TokenType, LinkType}

\* DataStore._is_annotation: the partition is kept in Annotation order.
is_annotation(type_name) == issubclass(type_name, AnnotationType)

(***************************************************************************)
(* The Entry Store of a pack (DataStore).                                  *)
(***************************************************************************)
\* A row of a partition: the attribute values of one entry.  begin and end
\* are None for an entry that is no annotation; parent and child are the
\* reference fields of a Link, None until set.
NewRow(tid, type_name, begin, end) ==
    [tid |-> tid, type |-> type_name, begin |-> begin, end |-> end,
     parent |-> None, child |-> None]

NoRow == NewRow(None, "", None, None)

\* The Annotation a row holds the attributes of.
as_annotation(row) ==
    [begin |-> row.begin, end |-> row.end, type |-> ClassChars(row.type)]

\* The ordering of the rows of Annotation-like partitions.
row_lt(a, b) == Annotation_lt(as_annotation(a), as_annotation(b))

\* Binary search for the insertion index (0-based) of row among rows[lo..hi),
\* after the rows that are not greater than it.
RECURSIVE bisect_right(_, _, _, _)
bisect_right(rows, row, lo, hi) ==
    IF lo >= hi THEN lo
    ELSE LET mid == (lo + hi) \div 2
         IN  IF row_lt(row, rows[mid + 1])
             THEN bisect_right(rows, row, lo, mid)
             ELSE bisect_right(rows, row, mid + 1, hi)

\* list.insert(idx, row) and list.pop(idx), idx 0-based.
InsertAt(rows, idx, row) ==
    SubSeq(rows, 1, idx) \o <<row>> \o SubSeq(rows, idx + 1, Len(rows))

RemoveAt(rows, idx) ==
    SubSeq(rows, 1, idx) \o SubSeq(rows, idx + 2, Len(rows))

\* The lookup table once a row entered (by +1) or left (by -1) partition
\* type_name at index idx: the rows behind it moved by one.
Reindexed(table, type_name, idx, by) ==
    [u \in DOMAIN table |->
        IF table[u][1] = type_name /\ table[u][2] >= idx
        THEN <<type_name, table[u][2] + by>>
        ELSE table[u]]

\* A tid taken from the number of entries the store holds.
MutNewTidFromSize == Cardinality(DOMAIN tid_idx_dict)

\* The fresh tid of the next entry: a counter that only grows.
new_tid == next_tid

\* Where add_entry_raw puts a row in its partition.
insert_index(rows, row) ==
    IF is_annotation(row.type)
    THEN bisect_right(rows, row, 0, Len(rows))
    ELSE Len(rows)

\* add_entry_raw(type_name, [begin, end], base_class) -> tid
add_entry_raw(type_name, begin, end) ==
    /\ next_tid' = next_tid + 1
    /\ UNCHANGED <<deleted, lt_call, obj, call, multi_vars>>
    /\ LET tid == new_tid
           row == NewRow(tid, type_name, begin, end)
           idx == insert_index(elements[type_name], row)
       IN  /\ returned' = Append(returned, tid)
           /\ elements' = [elements EXCEPT
                              ![type_name] = InsertAt(@, idx, row)]
           /\ tid_idx_dict' =
                  (tid :> <<type_name, idx>>)
                      @@ Reindexed(tid_idx_dict, type_name, idx, 1)

\* get_entry(tid) -> the row, or the error raised.
get_entry(tid) ==
    IF tid \notin DOMAIN tid_idx_dict
    THEN [raised |-> "UnknownIdError", row |-> NoRow]
    ELSE LET type_name == tid_idx_dict[tid][1]
             idx == tid_idx_dict[tid][2]
         IN  IF idx < Len(elements[type_name])
             THEN [raised |-> "", row |-> elements[type_name][idx + 1]]
             ELSE [raised |-> "IndexError", row |-> NoRow]

\* delete_entry leaving the row in its partition.
MutElementsKeepRow(tid) == elements

\* The partition and the lookup table after delete_entry removed tid.
elements_without(tid) ==
    LET type_name == tid_idx_dict[tid][1]
        idx == tid_idx_dict[tid][2]
    IN  [elements EXCEPT ![type_name] = RemoveAt(@, idx)]

\* delete_entry leaving tid in the lookup table.
MutTableKeepTid(tid) ==
    Reindexed(tid_idx_dict, tid_idx_dict[tid][1], tid_idx_dict[tid][2] + 1, -1)

\* delete_entry leaving the indices of the rows behind the removed one.
MutTableNoReindex(tid) ==
    [u \in DOMAIN tid_idx_dict \ {tid} |-> tid_idx_dict[u]]

table_without(tid) ==
    LET type_name == tid_idx_dict[tid][1]
        idx == tid_idx_dict[tid][2]
        rest == [u \in DOMAIN tid_idx_dict \ {tid} |-> tid_idx_dict[u]]
    IN  Reindexed(rest, type_name, idx + 1, -1)

\* delete_entry(tid): raises UnknownIdError, changing nothing, for a tid the
\* store does not hold.
delete_entry(tid) ==
    /\ UNCHANGED <<next_tid, returned, lt_call, obj, call, multi_vars>>
    /\ IF tid \in DOMAIN tid_idx_dict
       THEN /\ deleted' = deleted \cup {tid}
            /\ tid_idx_dict' = table_without(tid)
            /\ elements' = elements_without(tid)
       ELSE UNCHANGED <<elements, tid_idx_dict, deleted>>

\* all_entries(type_name): a generator over the partition as it is now.
RECURSIVE iterate(_, _)
iterate(rows, i) ==
    IF i > Len(rows) THEN <<>> ELSE <<rows[i]>> \o iterate(rows, i + 1)

all_entries(type_name) == iterate(elements[type_name], 1)

\* num_entries counting the entries of every type.
MutNumEntriesAllTypes(type_name) == Cardinality(DOMAIN tid_idx_dict)

\* num_entries(type_name)
num_entries(type_name) == Len(elements[type_name])

(***************************************************************************)
(* Link, MultiPackLink, Group and MultiPackGroup.  An entry handed to a    *)
(* setter is a record with its class (type), its tid and its pack_id.      *)
(***************************************************************************)
isinstance(entry, cls) == issubclass(entry.type, cls)

\* The class attributes ParentType, ChildType and MemberType: Entry in the
\* classes of top.py, narrowed by the ontology's subclasses.
ParentType(cls) ==
    CASE cls = DependencyType -> TokenType
      [] cls = CrossDocEntityRelationType -> EntityMentionType
      [] OTHER -> EntryType

ChildType(cls) ==
    CASE cls = DependencyType -> TokenType
      [] cls = CrossDocEntityRelationType -> EntityMentionType
      [] OTHER -> EntryType

MemberType(cls) ==
    CASE cls = CoreferenceGroupType -> EntityMentionType
      [] OTHER -> EntryType

\* Each setter returns the error it raises ("" for none) and the object as
\* the call leaves it.
\* Link.set_parent storing the tid before it checks the type.
MutLinkSetParentAssignFirst(self, parent) ==
    [raised |-> IF ~isinstance(parent, ParentType(self.cls))
                THEN "TypeError" ELSE "",
     self |-> [self EXCEPT !.parent = parent.tid]]

\* Link.set_parent taking a tid of 0 for no tid.
MutLinkSetParentFalsyTid(self, parent) ==
    IF ~isinstance(parent, ParentType(self.cls))
    THEN [raised |-> "TypeError", self |-> self]
    ELSE [raised |-> "",
          self |-> [self EXCEPT !.parent = IF parent.tid = 0 THEN None
                                           ELSE parent.tid]]

Link_set_parent(self, parent) ==
    IF ~isinstance(parent, ParentType(self.cls))
    THEN [raised |-> "TypeError", self |-> self]
    ELSE [raised |-> "", self |-> [self EXCEPT !.parent = parent.tid]]

Link_set_child(self, child) ==
    IF ~isinstance(child, ChildType(self.cls))
    THEN [raised |-> "TypeError", self |-> self]
    ELSE [raised |-> "", self |-> [self EXCEPT !.child = child.tid]]

\* MultiPackLink.set_parent refusing an entry whose pack is not in the
\* MultiPack when the parent is set.
MutMultiPackLinkSetParentChecksPack(self, parent) ==
    IF ~isinstance(parent, ParentType(self.cls))
    THEN [raised |-> "TypeError", self |-> self]
    ELSE IF \A i \in 1..Len(packs) : packs[i] # parent.pack_id
    THEN [raised |-> "ValueError", self |-> self]
    ELSE [raised |-> "",
          self |-> [self EXCEPT !.parent = <<parent.pack_id, parent.tid>>]]

MultiPackLink_set_parent(self, parent) ==
    IF ~isinstance(parent, ParentType(self.cls))
    THEN [raised |-> "TypeError", self |-> self]
    ELSE [raised |-> "",
          self |-> [self EXCEPT !.parent = <<parent.pack_id, parent.tid>>]]

MultiPackLink_set_child(self, child) ==
    IF ~isinstance(child, ChildType(self.cls))
    THEN [raised |-> "TypeError", self |-> self]
    ELSE [raised |-> "",
          self |-> [self EXCEPT !.child = <<child.pack_id, child.tid>>]]

\* Group.add_member keeping one occurrence of each member.
MutGroupAddMemberNoDuplicates(self, member) ==
    IF ~isinstance(member, MemberType(self.cls))
    THEN [raised |-> "TypeError", self |-> self]
    ELSE [raised |-> "",
          self |-> [self EXCEPT !.members =
                       IF \E i \in 1..Len(@) : @[i] = member THEN @
                       ELSE Append(@, member)]]

Group_add_member(self, member) ==
    IF ~isinstance(member, MemberType(self.cls))
    THEN [raised |-> "TypeError", self |-> self]
    ELSE [raised |-> "",
          self |-> [self EXCEPT !.members = Append(@, member)]]

MultiPackGroup_add_member(self, member) ==
    IF ~isinstance(member, MemberType(self.cls))
    THEN [raised |-> "TypeError", self |-> self]
    ELSE [raised |-> "",
          self |-> [self EXCEPT !.members = Append(@, member)]]

\* Group.get_members and MultiPackGroup.get_members: list(self.members).
Group_get_members(self) ==
    IF ~self.attached
    THEN [raised |-> "ValueError", members |-> <<>>]
    ELSE [raised |-> "", members |-> self.members]

MultiPackGroup_get_members(self) ==
    [raised |-> "", members |-> self.members]

\* DataPack.get_entry(tid): resolved by the pack's Entry Store at the call.
DataPack_get_entry(tid) == get_entry(tid)

\* Link.get_parent answering from the entry cached when the parent was set.
MutLinkGetParentCached(self) ==
    IF self.parent = None
    THEN [raised |-> "ValueError", row |-> NoRow]
    ELSE [raised |-> "", row |-> NoRow]

\* Link.get_parent and Link.get_child of a link attached to the pack.
Link_get_parent(self) ==
    IF ~self.attached
    THEN [raised |-> "ValueError", row |-> NoRow]
    ELSE IF self.parent = None
    THEN [raised |-> "ValueError", row |-> NoRow]
    ELSE DataPack_get_entry(self.parent)

Link_get_child(self) ==
    IF ~self.attached
    THEN [raised |-> "ValueError", row |-> NoRow]
    ELSE IF self.child = None
    THEN [raised |-> "ValueError", row |-> NoRow]
    ELSE DataPack_get_entry(self.child)

(***************************************************************************)
(* The coverage query of a pack.                                           *)
(***************************************************************************)
\* The order in which the partitions of a pack are visited.
PartitionOrder == <<SentenceType, TokenType, LinkType>>

\* Merge of two sequences of rows in Annotation order; of two rows neither
\* of which is smaller, the one of the first sequence comes first.
RECURSIVE merge(_, _)
merge(s, t) ==
    IF s = <<>> THEN t
    ELSE IF t = <<>> THEN s
    ELSE IF row_lt(Head(t), Head(s))
         THEN <<Head(t)>> \o merge(s, Tail(t))
         ELSE <<Head(s)>> \o merge(Tail(s), t)

RECURSIVE co_iterate(_)
co_iterate(types) ==
    IF types = <<>> THEN <<>>
    ELSE merge(all_entries(Head(types)), co_iterate(Tail(types)))

\* Whether the span of row lies within the span of range_entry.
in_span(row, range_entry) ==
    range_entry.begin <= row.begin /\ row.end <= range_entry.end

\* DataPack.get(entry_type, range_entry, include_sub_type) for a type of
\* annotations: the rows it yields, in order.  range_entry is a row, or
\* NoRow for None.
DataPack_get(entry_type, range_entry, include_sub_type) ==
    LET wanted(t) == IF include_sub_type THEN issubclass(t, entry_type)
                     ELSE t = entry_type
        rows == co_iterate(SelectSeq(PartitionOrder, wanted))
        covered(row) == in_span(row, range_entry)
    IN  IF range_entry = NoRow THEN rows ELSE SelectSeq(rows, covered)

\* Annotation.get passing no range to the pack.
MutAnnotationGetNoRange(self, entry_type, include_sub_type) ==
    DataPack_get(entry_type, NoRow, include_sub_type)

\* Annotation.get(entry_type, include_sub_type): the entries this annotation
\* covers.
Annotation_get(self, entry_type, include_sub_type) ==
    DataPack_get(entry_type, self, include_sub_type)

(***************************************************************************)
(* The pack: entries are added and deleted, and the links of the pack have *)
(* their parent and child set to entries of the pack.                      *)
(***************************************************************************)
Spans == {<<b, e>> \in (0..MaxOffset) \X (0..MaxOffset) : b <= e}

\* The row of a live tid, and all rows of the store.
row_of(tid) == elements[tid_idx_dict[tid][1]][tid_idx_dict[tid][2] + 1]

AllRows == UNION {{elements[t][i] : i \in 1..Len(elements[t])} : t \in StoreTypes}

\* The objects a row stands for: the entry, and the Link.
entry_of(row) == [type |-> row.type, tid |-> row.tid, pack_id |-> 0]

link_of(row) ==
    [cls |-> row.type, attached |-> TRUE,
     parent |-> row.parent, child |-> row.child]

\* The store with the fields of link self written back to its row.
with_link(tid, self) ==
    [elements EXCEPT ![tid_idx_dict[tid][1]][tid_idx_dict[tid][2] + 1] =
        [@ EXCEPT !.parent = self.parent, !.child = self.child]]

AddAnnotation ==
    /\ next_tid < MaxTid
    /\ \E type_name \in {SentenceType, TokenType} : \E span \in Spans :
           add_entry_raw(type_name, span[1], span[2])

AddLink ==
    /\ next_tid < MaxTid
    /\ add_entry_raw(LinkType, None, None)

DeleteEntry == \E tid \in 0..(MaxTid - 1) : delete_entry(tid)

PackLinkSetParent ==
    \E l \in DOMAIN tid_idx_dict : \E e \in DOMAIN tid_idx_dict :
        /\ issubclass(row_of(l).type, LinkType)
        /\ elements' = with_link(l,
               Link_set_parent(link_of(row_of(l)), entry_of(row_of(e))).self)
        /\ UNCHANGED <<tid_idx_dict, next_tid, returned, deleted,
                       lt_call, obj, call, multi_vars>>

PackLinkSetChild ==
    \E l \in DOMAIN tid_idx_dict : \E e \in DOMAIN tid_idx_dict :
        /\ issubclass(row_of(l).type, LinkType)
        /\ elements' = with_link(l,
               Link_set_child(link_of(row_of(l)), entry_of(row_of(e))).self)
        /\ UNCHANGED <<tid_idx_dict, next_tid, returned, deleted,
                       lt_call, obj, call, multi_vars>>

\* get_parent and get_child of a link of the pack: the call returns the
\* entry the tid resolves to now, or raises; the store is left as it is.
PackLinkGetParent ==
    \E l \in DOMAIN tid_idx_dict :
        /\ issubclass(row_of(l).type, LinkType)
        /\ LET res == Link_get_parent(link_of(row_of(l)))
           IN  call' = [kind |-> "get_parent", raised |-> res.raised,
                        result |-> res.row.tid]
        /\ UNCHANGED <<store_vars, lt_call, obj, multi_vars>>

PackLinkGetChild ==
    \E l \in DOMAIN tid_idx_dict :
        /\ issubclass(row_of(l).type, LinkType)
        /\ LET res == Link_get_child(link_of(row_of(l)))
           IN  call' = [kind |-> "get_child", raised |-> res.raised,
                        result |-> res.row.tid]
        /\ UNCHANGED <<store_vars, lt_call, obj, multi_vars>>

NoObj == [cls |-> ""]

\* A new pack: no entry, no comparison made, no object under test.
Init ==
    /\ elements = [t \in StoreTypes |-> <<>>]
    /\ tid_idx_dict = <<>>
    /\ next_tid = 0
    /\ returned = <<>>
    /\ deleted = {}
    /\ lt_call = NoCall
    /\ obj = NoObj
    /\ call = NoCall
    /\ packs = <<>>
    /\ pack_entries = <<>>

StoreNext ==
    \/ AddAnnotation
    \/ AddLink
    \/ DeleteEntry

\* A pack with links: tokens and links are added, the links are given
\* parents and children, entries are deleted.
AddPointee ==
    /\ next_tid < MaxLinkTid
    /\ add_entry_raw(TokenType, 0, 0)

AddPackLink ==
    /\ next_tid < MaxLinkTid
    /\ add_entry_raw(LinkType, None, None)

DeletePackEntry == \E tid \in 0..(MaxLinkTid - 1) : delete_entry(tid)

PackNext ==
    \/ AddPointee
    \/ AddPackLink
    \/ DeletePackEntry
    \/ PackLinkSetParent
    \/ PackLinkSetChild
    \/ PackLinkGetParent
    \/ PackLinkGetChild

SpecPack == Init /\ [][PackNext]_vars

SpecStore == Init /\ [][StoreNext]_vars

(***************************************************************************)
(* Comparisons of annotations.                                             *)
(***************************************************************************)
CompareAnnotations ==
    /\ lt_call = NoCall
    /\ \E a \in CmpAnnotations : \E b \in CmpAnnotations :
           lt_call' = [kind |-> "Annotation", self |-> a, other |-> b,
                       result |-> Annotation_lt(a, b)]
    /\ UNCHANGED <<store_vars, ref_vars, multi_vars>>

CompareAudioAnnotations ==
    /\ lt_call = NoCall
    /\ \E a \in CmpAnnotations : \E b \in CmpAnnotations :
           lt_call' = [kind |-> "AudioAnnotation", self |-> a, other |-> b,
                       result |-> AudioAnnotation_lt(a, b)]
    /\ UNCHANGED <<store_vars, ref_vars, multi_vars>>

OrderNext == CompareAnnotations \/ CompareAudioAnnotations

SpecOrder == Init /\ [][OrderNext]_vars

(***************************************************************************)
(* One Link, MultiPackLink, Group or MultiPackGroup object, on which the   *)
(* setters are called with entries of several classes and with a value     *)
(* that is no Entry.                                                       *)
(***************************************************************************)
RefArgs ==
    {[type |-> TokenType, tid |-> 1, pack_id |-> 10],
     [type |-> EntityMentionType, tid |-> 2, pack_id |-> 20],
     [type |-> SentenceType, tid |-> 3, pack_id |-> 10],
     [type |-> ObjectType, tid |-> None, pack_id |-> None]}

LinkClasses == {LinkType, DependencyType}
MultiPackLinkClasses == {MultiPackLinkType, CrossDocEntityRelationType}
GroupClasses == {GroupType, CoreferenceGroupType}
MultiPackGroupClasses == {MultiPackGroupType}

\* The objects as their constructors leave them when given no parent, child
\* or members.
NewLink(cls) ==
    [cls |-> cls, attached |-> TRUE, parent |-> None, child |-> None]

NewMultiPackLink(cls) ==
    [cls |-> cls, attached |-> TRUE,
     parent |-> <<None, None>>, child |-> <<None, None>>]

NewGroup(cls) == [cls |-> cls, attached |-> TRUE, members |-> <<>>]

RefInit ==
    /\ \/ \E cls \in LinkClasses : obj = NewLink(cls)
       \/ \E cls \in MultiPackLinkClasses : obj = NewMultiPackLink(cls)
       \/ \E cls \in GroupClasses \cup MultiPackGroupClasses :
              obj = NewGroup(cls)
    /\ call = NoCall
    /\ lt_call = NoCall
    /\ elements = [t \in StoreTypes |-> <<>>]
    /\ tid_idx_dict = <<>>
    /\ next_tid = 0
    /\ returned = <<>>
    /\ deleted = {}
    /\ packs = <<>>
    /\ pack_entries = <<>>

set_parent ==
    /\ obj.cls \in LinkClasses \cup MultiPackLinkClasses
    /\ \E e \in RefArgs :
           LET res == IF obj.cls \in LinkClasses
                      THEN Link_set_parent(obj, e)
                      ELSE MultiPackLink_set_parent(obj, e)
           IN  /\ obj' = res.self
               /\ call' = [kind |-> "set_parent", arg |-> e,
                           raised |-> res.raised]
    /\ UNCHANGED <<store_vars, lt_call, multi_vars>>

set_child ==
    /\ obj.cls \in LinkClasses \cup MultiPackLinkClasses
    /\ \E e \in RefArgs :
           LET res == IF obj.cls \in LinkClasses
                      THEN Link_set_child(obj, e)
                      ELSE MultiPackLink_set_child(obj, e)
           IN  /\ obj' = res.self
               /\ call' = [kind |-> "set_child", arg |-> e,
                           raised |-> res.raised]
    /\ UNCHANGED <<store_vars, lt_call, multi_vars>>

\* History: the members the add_member calls made so far were accepted
\* with, in call order.
added_so_far == IF call.kind = "add_member" THEN call.added ELSE <<>>

add_member ==
    /\ obj.cls \in GroupClasses \cup MultiPackGroupClasses
    /\ \E e \in RefArgs :
           LET res == IF obj.cls \in GroupClasses
                      THEN Group_add_member(obj, e)
                      ELSE MultiPackGroup_add_member(obj, e)
               added == added_so_far
                            \o (IF res.raised = "" THEN <<e>> ELSE <<>>)
           IN  /\ Len(added) <= MaxMembers
               /\ obj' = res.self
               /\ call' = [kind |-> "add_member", arg |-> e,
                           raised |-> res.raised, added |-> added]
    /\ UNCHANGED <<store_vars, lt_call, multi_vars>>

RefNext == set_parent \/ set_child \/ add_member

SpecRef == RefInit /\ [][RefNext]_vars

(***************************************************************************)
(* ImageAnnotation, Region and Box.  A point is <<row, column>>; a Box is  *)
(* a record of the attributes its constructor sets.                        *)
(***************************************************************************)
\* round(s / 2) of Python for s >= 0: a half goes to the even neighbour.
round_half(s) ==
    IF s % 2 = 0 THEN s \div 2
    ELSE IF (s \div 2) % 2 = 0 THEN s \div 2 ELSE (s \div 2) + 1

\* ImageAnnotation.__init__ and Region.__init__: the fields they set.
ImageAnnotation_init(cls, image_payload_idx) ==
    [cls |-> cls, attached |-> TRUE,
     image_payload_idx |-> image_payload_idx]

Region_init(cls, image_payload_idx) ==
    [ImageAnnotation_init(cls, image_payload_idx) EXCEPT
        !.image_payload_idx = IF image_payload_idx = None THEN 0
                              ELSE image_payload_idx]

\* Box.__init__ taking equal corner coordinates.
MutBoxInitAllowsEqualCorners(tl_point, br_point, image_payload_idx) ==
    LET base == Region_init(BoxType, image_payload_idx)
    IN  IF tl_point[1] < 0 \/ tl_point[2] < 0
             \/ br_point[1] < 0 \/ br_point[2] < 0
             \/ tl_point[1] > br_point[1] \/ tl_point[2] > br_point[2]
        THEN [raised |-> "ValueError", self |-> base]
        ELSE [raised |-> "",
              self |-> [cls |-> base.cls, attached |-> base.attached,
                        image_payload_idx |-> base.image_payload_idx,
                        y0 |-> tl_point[1], x0 |-> tl_point[2],
                        y1 |-> br_point[1], x1 |-> br_point[2],
                        cy |-> round_half(tl_point[1] + br_point[1]),
                        cx |-> round_half(tl_point[2] + br_point[2]),
                        height |-> br_point[1] - tl_point[1],
                        width |-> br_point[2] - tl_point[2]]]

\* The checks of Box.__init__ and the fields it sets after them.  The call
\* of the base constructor, which comes first, is on_entry_creation below.
Box_init(tl_point, br_point, image_payload_idx) ==
    LET base == Region_init(BoxType, image_payload_idx)
    IN  IF tl_point[1] < 0 \/ tl_point[2] < 0
        THEN [raised |-> "ValueError", self |-> base]
        ELSE IF br_point[1] < 0 \/ br_point[2] < 0
        THEN [raised |-> "ValueError", self |-> base]
        ELSE IF tl_point[1] >= br_point[1]
        THEN [raised |-> "ValueError", self |-> base]
        ELSE IF tl_point[2] >= br_point[2]
        THEN [raised |-> "ValueError", self |-> base]
        ELSE [raised |-> "",
              self |-> [cls |-> base.cls, attached |-> base.attached,
                        image_payload_idx |-> base.image_payload_idx,
                        y0 |-> tl_point[1], x0 |-> tl_point[2],
                        y1 |-> br_point[1], x1 |-> br_point[2],
                        cy |-> round_half(tl_point[1] + br_point[1]),
                        cx |-> round_half(tl_point[2] + br_point[2]),
                        height |-> br_point[1] - tl_point[1],
                        width |-> br_point[2] - tl_point[2]]]

\* Box.init_from_center_n_shape: the corners computed from the center and
\* the shape, handed to the constructor.
Box_init_from_center_n_shape(cy, cx, height, width, image_payload_idx) ==
    Box_init(<<cy - round_half(height), cx - round_half(width)>>,
             <<cy - round_half(height) + height,
               cx - round_half(width) + width>>,
             image_payload_idx)

Box_center(self) == <<self.cy, self.cx>>

Box_corners(self) ==
    <<<<self.y0, self.x0>>, <<self.y0, self.x1>>,
      <<self.y1, self.x0>>, <<self.y1, self.x1>>>>

Box_area(self) == self.height * self.width

\* Python values that are not numbers: a tuple, and a method bound to an
\* object.  len() is defined on the first and raises on the second.
Tuple(items) == [kind |-> "tuple", items |-> items]

BoundMethod(fn, self) == [kind |-> "method", fn |-> fn, self |-> self]

len(x) ==
    IF x.kind = "tuple"
    THEN [raised |-> "", value |-> Len(x.items)]
    ELSE [raised |-> "TypeError", value |-> None]

Raise(err) == [raised |-> err, value |-> None]
Return(value) == [raised |-> "", value |-> value]

\* The image payload of the pack: an image of MaxCoord + 1 rows and columns,
\* whose shape set_cache stored as the cache shape.
image_payloads ==
    <<[cls |-> ImagePayloadType, payload_idx |-> 0,
       cache_shape |-> Tuple(<<MaxCoord + 1, MaxCoord + 1>>)]>>

\* DataPack.get_payload_at(Modality.Image, payload_index)
get_payload_at(payload_index) == image_payloads[payload_index + 1]

\* Payload.image_shape is a method: calling it returns the cache shape, and
\* reading the attribute without calling it gives the bound method.
Payload_image_shape(self) == self.cache_shape

Payload_getattr_image_shape(self) == BoundMethod("image_shape", self)

\* ImageAnnotation.image_shape reads the attribute of the payload and takes
\* its length.
ImageAnnotation_image_shape(self) ==
    IF ~self.attached THEN Raise("ValueError")
    ELSE LET image_shape ==
                 Payload_getattr_image_shape(
                     get_payload_at(self.image_payload_idx))
         IN  IF len(image_shape).raised # ""
             THEN Raise(len(image_shape).raised)
             ELSE IF ~(2 <= len(image_shape).value
                          /\ len(image_shape).value <= 3)
             THEN Raise("ValueError")
             ELSE Return(image_shape)

ImageAnnotation_max_x(self) ==
    LET image_shape == ImageAnnotation_image_shape(self)
    IN  IF image_shape.raised # "" THEN Raise(image_shape.raised)
        ELSE Return(image_shape.value.items[2] - 1)

ImageAnnotation_max_y(self) ==
    LET image_shape == ImageAnnotation_image_shape(self)
    IN  IF image_shape.raised # "" THEN Raise(image_shape.raised)
        ELSE Return(image_shape.value.items[1] - 1)

min(a, b) == IF b < a THEN b ELSE a
abs(a) == IF a < 0 THEN -a ELSE a

Box_box_min_x(self) == Return(self.x0)
Box_box_min_y(self) == Return(self.y0)

Box_box_max_x(self) ==
    LET max_x == ImageAnnotation_max_x(self)
    IN  IF max_x.raised # "" THEN Raise(max_x.raised)
        ELSE Return(min(self.x1, max_x.value))

Box_box_max_y(self) ==
    LET max_y == ImageAnnotation_max_y(self)
    IN  IF max_y.raised # "" THEN Raise(max_y.raised)
        ELSE Return(min(self.y1, max_y.value))

\* Box.is_overlapped: the operands of each comparison are read from left to
\* right, and the first read that raises ends the call.
Box_is_overlapped(self, other) ==
    IF Box_box_max_x(other).raised # ""
    THEN Raise(Box_box_max_x(other).raised)
    ELSE IF Box_box_min_x(self).value > Box_box_max_x(other).value
    THEN Return(FALSE)
    ELSE IF Box_box_max_x(self).raised # ""
    THEN Raise(Box_box_max_x(self).raised)
    ELSE IF Box_box_min_x(other).value > Box_box_max_x(self).value
    THEN Return(FALSE)
    ELSE IF Box_box_max_y(other).raised # ""
    THEN Raise(Box_box_max_y(other).raised)
    ELSE IF Box_box_min_y(self).value > Box_box_max_y(other).value
    THEN Return(FALSE)
    ELSE IF Box_box_max_y(self).raised # ""
    THEN Raise(Box_box_max_y(self).raised)
    ELSE IF Box_box_min_y(other).value > Box_box_max_y(self).value
    THEN Return(FALSE)
    ELSE Return(TRUE)

\* A quotient num / den of two integers, kept as the pair; 0 is 0 / 1.
Quotient(num, den) == [num |-> num, den |-> den]

\* Box.compute_iou.  Past is_overlapped no read of a property raises, as
\* is_overlapped read each of them.
Box_compute_iou(self, other) ==
    IF ~issubclass(other.cls, BoxType) THEN Raise("ValueError")
    ELSE IF Box_is_overlapped(self, other).raised # ""
    THEN Raise(Box_is_overlapped(self, other).raised)
    ELSE IF ~Box_is_overlapped(self, other).value
    THEN Return(Quotient(0, 1))
    ELSE LET box_x_diff ==
                 min(abs(Box_box_max_x(other).value
                             - Box_box_min_x(self).value),
                     abs(Box_box_min_x(other).value
                             - Box_box_max_x(self).value))
             box_y_diff ==
                 min(abs(Box_box_max_y(other).value
                             - Box_box_min_y(self).value),
                     abs(Box_box_min_y(other).value
                             - Box_box_max_y(self).value))
             intersection == box_x_diff * box_y_diff
             union == Box_area(self) + Box_area(other) - intersection
         IN  IF union = 0 THEN Raise("ZeroDivisionError")
             ELSE Return(Quotient(intersection, union))

(***************************************************************************)
(* Payload.  Python values other than numbers carry their kind.            *)
(***************************************************************************)
Str(s) == [kind |-> "str", value |-> s]
Num(n) == [kind |-> "int", value |-> n]
List(items) == [kind |-> "list", items |-> items]
NdArray(items) == [kind |-> "ndarray", items |-> items]
PyNone == [kind |-> "None"]

\* A member of the enumeration Modality.
Modality(name) == [kind |-> "Modality", name |-> name]

\* Payload.__init__: the modality follows from the class; the branch for
\* any other class reads the local modality, which was never bound.
Payload_init(cls, payload_idx, uri) ==
    LET name == IF issubclass(cls, TextPayloadType) THEN "Text"
                ELSE IF issubclass(cls, AudioPayloadType) THEN "Audio"
                ELSE IF issubclass(cls, ImagePayloadType) THEN "Image"
                ELSE ""
    IN  IF name = ""
        THEN [raised |-> "UnboundLocalError", self |-> NoObj]
        ELSE [raised |-> "",
              self |-> [cls |-> cls, attached |-> TRUE,
                        modality |-> Modality(name),
                        modality_name |-> Str(name),
                        payload_idx |-> payload_idx, uri |-> uri,
                        embedding |-> NdArray(<<>>),
                        cache |-> Str(""), cache_shape |-> PyNone,
                        replace_back_operations |-> <<>>,
                        processed_original_spans |-> <<>>,
                        orig_text_len |-> 0]]

\* Payload.set_cache: the data is stored before its type is looked at.
Payload_set_cache(self, data, cache_shape) ==
    IF data.kind = "ndarray"
    THEN [raised |-> "",
          self |-> [self EXCEPT !.cache = data,
                                !.cache_shape = Tuple(<<Len(data.items)>>)]]
    ELSE IF data.kind = "str"
    THEN [raised |-> "",
          self |-> [self EXCEPT !.cache = data,
                                !.cache_shape = Tuple(<<Len(data.value)>>)]]
    ELSE [raised |-> "ValueError", self |-> [self EXCEPT !.cache = data]]

\* ndarray.tolist() of an array of one axis.
tolist(array) == List(array.items)

\* Payload.__getstate__: the state handed to the serializer.
Payload_getstate(self) ==
    [self EXCEPT
        !.modality = self.modality_name,
        !.cache = IF self.cache.kind = "ndarray" THEN tolist(self.cache)
                  ELSE self.cache,
        !.embedding = IF self.embedding.kind = "ndarray"
                      THEN tolist(self.embedding) ELSE self.embedding]

\* Payload.__setstate__: the object takes the state as it is, then modality
\* is set from its name; the lists are turned into arrays in the state
\* dictionary only, after the object was updated from it.
Payload_setstate(state) ==
    [state EXCEPT !.modality = Modality(state.modality.value)]

\* The row the Entry Store keeps for a payload: its dataclass fields.
payload_row(tid, self) ==
    [tid |-> tid, type |-> self.cls, begin |-> None, end |-> None,
     payload_idx |-> self.payload_idx, modality_name |-> self.modality_name,
     uri |-> self.uri]

(***************************************************************************)
(* A pack with an image, on which boxes are constructed and compared.      *)
(***************************************************************************)
\* Entry.__init__ hands the new entry to its pack, which registers it in the
\* Entry Store at once.
on_entry_creation(row) ==
    LET idx == insert_index(elements[row.type], row)
    IN  /\ row.tid = new_tid
        /\ next_tid' = next_tid + 1
        /\ returned' = Append(returned, row.tid)
        /\ elements' = [elements EXCEPT ![row.type] = InsertAt(@, idx, row)]
        /\ tid_idx_dict' =
               (row.tid :> <<row.type, idx>>)
                   @@ Reindexed(tid_idx_dict, row.type, idx, 1)

\* The points handed to the constructor, and the boxes it accepts.
Points == (-1..MaxCoord) \X (-1..MaxCoord)

Boxes ==
    {Box_init(tl, br, 0).self :
        <<tl, br>> \in {pq \in Points \X Points :
                           Box_init(pq[1], pq[2], 0).raised = ""}}

\* Box(pack, tl_point, br_point): the base constructors run first and
\* register the entry, then the corners are checked.
NewBox ==
    /\ next_tid < MaxBoxes
    /\ call.kind \in {"none", "Box"}
    /\ UNCHANGED <<deleted, lt_call, obj, multi_vars>>
    /\ on_entry_creation(NewRow(new_tid, BoxType, None, None))
    /\ \E tl \in Points : \E br \in Points :
           LET res == Box_init(tl, br, 0)
           IN  call' = [kind |-> "Box", tl_point |-> tl, br_point |-> br,
                        raised |-> res.raised,
                        result |-> IF res.raised = "" THEN res.self
                                   ELSE NoObj]

\* Box.init_from_center_n_shape(pack, cy, cx, height, width).
NewBoxFromCenter ==
    /\ next_tid < MaxBoxes
    /\ call = NoCall
    /\ UNCHANGED <<deleted, lt_call, obj, multi_vars>>
    /\ on_entry_creation(NewRow(new_tid, BoxType, None, None))
    /\ \E cy \in 0..MaxCoord, cx \in 0..MaxCoord,
          height \in 1..MaxCoord, width \in 1..MaxCoord :
           LET res == Box_init_from_center_n_shape(cy, cx, height, width, 0)
           IN  call' = [kind |-> "init_from_center_n_shape",
                        cy |-> cy, cx |-> cx,
                        height |-> height, width |-> width,
                        raised |-> res.raised,
                        result |-> IF res.raised = "" THEN res.self
                                   ELSE NoObj]

\* is_overlapped and compute_iou of the box just constructed with a box of
\* the pack.
BoxIsOverlapped ==
    /\ call.kind = "Box"
    /\ call.raised = ""
    /\ \E other \in Boxes :
           LET res == Box_is_overlapped(call.result, other)
           IN  call' = [kind |-> "is_overlapped", self |-> call.result,
                        other |-> other, raised |-> res.raised,
                        result |-> res.value]
    /\ UNCHANGED <<store_vars, lt_call, obj, multi_vars>>

BoxComputeIou ==
    /\ call.kind = "Box"
    /\ call.raised = ""
    /\ \E other \in Boxes :
           LET res == Box_compute_iou(call.result, other)
           IN  call' = [kind |-> "compute_iou", self |-> call.result,
                        other |-> other, raised |-> res.raised,
                        result |-> res.value]
    /\ UNCHANGED <<store_vars, lt_call, obj, multi_vars>>

BoxPackInit ==
    /\ elements = [t \in {BoxType} |-> <<>>]
    /\ tid_idx_dict = <<>>
    /\ next_tid = 0
    /\ returned = <<>>
    /\ deleted = {}
    /\ lt_call = NoCall
    /\ obj = NoObj
    /\ call = NoCall
    /\ packs = <<>>
    /\ pack_entries = <<>>

BoxNext == NewBox \/ NewBoxFromCenter \/ BoxIsOverlapped \/ BoxComputeIou

SpecBox == BoxPackInit /\ [][BoxNext]_vars

(***************************************************************************)
(* Serialization of a pack: to_string and from_string.                     *)
(***************************************************************************)
\* An int that may be None, as a value of the serialized form and back.
opt(n) == IF n = None THEN PyNone ELSE Num(n)
unopt(v) == IF v.kind = "None" THEN None ELSE v.value

\* A row as the list of its values: begin, end, tid, type name, and then
\* the attributes of its type.
row_to_list(row) ==
    <<opt(row.begin), opt(row.end), Num(row.tid), Str(row.type)>>
        \o (IF issubclass(row.type, PayloadType)
            THEN <<Num(row.payload_idx), row.modality_name, row.uri>>
            ELSE <<opt(row.parent), opt(row.child)>>)

list_to_row(list) ==
    IF issubclass(list[4].value, PayloadType)
    THEN [tid |-> list[3].value, type |-> list[4].value,
          begin |-> unopt(list[1]), end |-> unopt(list[2]),
          payload_idx |-> list[5].value, modality_name |-> list[6],
          uri |-> list[7]]
    ELSE [tid |-> list[3].value, type |-> list[4].value,
          begin |-> unopt(list[1]), end |-> unopt(list[2]),
          parent |-> unopt(list[5]), child |-> unopt(list[6])]

\* The state of the Entry Store in the serialized form: one partition per
\* type name, each the list of its rows in order, and the tid index map.
DataStore_getstate ==
    [entries |->
         [t \in DOMAIN elements |->
             [i \in 1..Len(elements[t]) |-> row_to_list(elements[t][i])]],
     tid_idx_dict |->
         [tid \in DOMAIN tid_idx_dict |->
             List(<<Str(tid_idx_dict[tid][1]), Num(tid_idx_dict[tid][2])>>)]]

DataStore_setstate(state) ==
    [elements |->
         [t \in DOMAIN state.entries |->
             [i \in 1..Len(state.entries[t]) |->
                 list_to_row(state.entries[t][i])]],
     tid_idx_dict |->
         [tid \in DOMAIN state.tid_idx_dict |->
             <<state.tid_idx_dict[tid].items[1].value,
               state.tid_idx_dict[tid].items[2].value>>]]

\* The text payloads of the pack: obj is the text payload once set_text
\* made it.
text_payloads == IF obj = NoObj THEN <<>> ELSE <<obj>>

\* DataPack.to_string: the state of the pack, the store and the payloads
\* each under py_state.
to_string ==
    [py_object |-> "forte.data.data_pack.DataPack",
     py_state |->
         [data_store |-> [py_state |-> DataStore_getstate],
          text_payloads |->
              [i \in 1..Len(text_payloads) |->
                  [py_object |-> text_payloads[i].cls,
                   py_state |-> Payload_getstate(text_payloads[i])]]]]

\* from_string: the pack the serialized form describes.
from_string(json) ==
    [elements |->
         DataStore_setstate(json.py_state.data_store.py_state).elements,
     tid_idx_dict |->
         DataStore_setstate(json.py_state.data_store.py_state).tid_idx_dict,
     text_payloads |->
         [i \in 1..Len(json.py_state.text_payloads) |->
             Payload_setstate(json.py_state.text_payloads[i].py_state)]]

\* DataPack.text: the cache of the first text payload.
DataPack_text(payloads) ==
    IF payloads = <<>> THEN "" ELSE payloads[1].cache.value

Texts == {"", "a", "a b"}

\* DataPack.set_text(text): the first call makes the text payload of the
\* pack, an entry of the pack; each call stores the text as its cache.
set_text ==
    /\ call = NoCall
    /\ UNCHANGED <<deleted, lt_call, call, multi_vars>>
    /\ \E text \in Texts :
           IF obj = NoObj
           THEN /\ next_tid < MaxLinkTid
                /\ LET new == Payload_init(TextPayloadType, 0, PyNone).self
                   IN  /\ obj' = Payload_set_cache(new, Str(text),
                                                   PyNone).self
                       /\ on_entry_creation(payload_row(new_tid, new))
           ELSE /\ obj' = Payload_set_cache(obj, Str(text), PyNone).self
                /\ UNCHANGED store_vars

CodecAddToken ==
    /\ call = NoCall
    /\ next_tid < MaxLinkTid
    /\ \E span \in Spans : add_entry_raw(TokenType, span[1], span[2])

CodecDeleteToken ==
    /\ call = NoCall
    /\ \E tid \in DOMAIN tid_idx_dict :
           /\ tid_idx_dict[tid][1] = TokenType
           /\ delete_entry(tid)

Serialize ==
    /\ call = NoCall
    /\ call' = [kind |-> "to_string", result |-> to_string]
    /\ UNCHANGED <<store_vars, lt_call, obj, multi_vars>>

Deserialize ==
    /\ call.kind = "to_string"
    /\ call' = [kind |-> "from_string", json |-> call.result,
                result |-> from_string(call.result)]
    /\ UNCHANGED <<store_vars, lt_call, obj, multi_vars>>

CodecInit ==
    /\ elements = [t \in {TokenType, TextPayloadType} |-> <<>>]
    /\ tid_idx_dict = <<>>
    /\ next_tid = 0
    /\ returned = <<>>
    /\ deleted = {}
    /\ lt_call = NoCall
    /\ obj = NoObj
    /\ call = NoCall
    /\ packs = <<>>
    /\ pack_entries = <<>>

CodecNext ==
    \/ set_text
    \/ CodecAddToken
    \/ CodecDeleteToken
    \/ Serialize
    \/ Deserialize

SpecCodec == CodecInit /\ [][CodecNext]_vars

(***************************************************************************)
(* A MultiPack and one MultiPackLink of it.  packs is the list of the      *)
(* packs of the MultiPack, each pack standing as its pack_id; pack_entries *)
(* maps each pack, in the MultiPack or not, to the tids of its entries.    *)
(***************************************************************************)
MaxPacks == 3       \* most packs in a MultiPack

PackIds == {0, 1, 7}

\* The entries of the packs: tids are unique in a pack only.
PackEntries ==
    {[type |-> EntityMentionType, tid |-> 1, pack_id |-> 0],
     [type |-> EntityMentionType, tid |-> 1, pack_id |-> 1],
     [type |-> EntityMentionType, tid |-> 2, pack_id |-> 7]}

MultiArgs ==
    PackEntries \cup {[type |-> ObjectType, tid |-> None, pack_id |-> None]}

\* list[index] of Python, on a list held as a sequence.
getitem(list, index) ==
    IF 0 <= index /\ index < Len(list) THEN Return(list[index + 1])
    ELSE IF -Len(list) <= index /\ index < 0
    THEN Return(list[Len(list) + index + 1])
    ELSE Raise("IndexError")

\* MultiPack.get_subentry: the entry of tid entry_id in the pack of the
\* MultiPack whose pack_id is given.
MultiPack_get_subentry(pack_id, entry_id) ==
    IF \A i \in 1..Len(packs) : packs[i] # pack_id
    THEN Raise("ValueError")
    ELSE IF entry_id \notin pack_entries[pack_id]
    THEN Raise("KeyError")
    ELSE Return([pack_id |-> pack_id, tid |-> entry_id])

\* MultiPackLink.get_parent returning the child.
MutMultiPackLinkGetParentOfChild(self) ==
    MultiPack_get_subentry(self.child[1], self.child[2])

\* self.parent is a tuple, (None, None) when unset, so the test
\* "self.parent is None" of the code is never true.
MultiPackLink_get_parent(self) ==
    MultiPack_get_subentry(self.parent[1], self.parent[2])

MultiPackLink_get_child(self) ==
    MultiPack_get_subentry(self.child[1], self.child[2])

MultiPackLink_parent_id(self) == Return(self.parent[2])

MultiPackLink_child_id(self) == Return(self.child[2])

MultiPackLink_parent_pack_id(self) ==
    IF self.parent[1] = None THEN Raise("ValueError")
    ELSE getitem(packs, self.parent[1])

MultiPackLink_child_pack_id(self) ==
    IF self.child[1] = None THEN Raise("ValueError")
    ELSE getitem(packs, self.child[1])

MultiSetParent ==
    /\ UNCHANGED <<store_vars, lt_call, multi_vars>>
    /\ \E e \in MultiArgs :
           LET res == MultiPackLink_set_parent(obj, e)
           IN  /\ obj' = res.self
               /\ call' = [kind |-> "set_parent", arg |-> e,
                           raised |-> res.raised]

MultiSetChild ==
    /\ UNCHANGED <<store_vars, lt_call, multi_vars>>
    /\ \E e \in MultiArgs :
           LET res == MultiPackLink_set_child(obj, e)
           IN  /\ obj' = res.self
               /\ call' = [kind |-> "set_child", arg |-> e,
                           raised |-> res.raised]

\* The read-only calls: each leaves the link and the MultiPack as they are.
MultiGetParent ==
    /\ call' = [kind |-> "get_parent", raised |-> MultiPackLink_get_parent(obj).raised,
                result |-> MultiPackLink_get_parent(obj).value]
    /\ UNCHANGED <<store_vars, lt_call, obj, multi_vars>>

MultiGetChild ==
    /\ call' = [kind |-> "get_child", raised |-> MultiPackLink_get_child(obj).raised,
                result |-> MultiPackLink_get_child(obj).value]
    /\ UNCHANGED <<store_vars, lt_call, obj, multi_vars>>

MultiParentId ==
    /\ call' = [kind |-> "parent_id", raised |-> MultiPackLink_parent_id(obj).raised,
                result |-> MultiPackLink_parent_id(obj).value]
    /\ UNCHANGED <<store_vars, lt_call, obj, multi_vars>>

MultiChildId ==
    /\ call' = [kind |-> "child_id", raised |-> MultiPackLink_child_id(obj).raised,
                result |-> MultiPackLink_child_id(obj).value]
    /\ UNCHANGED <<store_vars, lt_call, obj, multi_vars>>

MultiParentPackId ==
    /\ call' = [kind |-> "parent_pack_id", raised |-> MultiPackLink_parent_pack_id(obj).raised,
                result |-> MultiPackLink_parent_pack_id(obj).value]
    /\ UNCHANGED <<store_vars, lt_call, obj, multi_vars>>

MultiChildPackId ==
    /\ call' = [kind |-> "child_pack_id", raised |-> MultiPackLink_child_pack_id(obj).raised,
                result |-> MultiPackLink_child_pack_id(obj).value]
    /\ UNCHANGED <<store_vars, lt_call, obj, multi_vars>>

\* MultiPack.add_pack_: the pack goes to the end of the list.
add_pack ==
    /\ Len(packs) < MaxPacks
    /\ \E pack_id \in PackIds :
           /\ \A i \in 1..Len(packs) : packs[i] # pack_id
           /\ packs' = Append(packs, pack_id)
    /\ call' = [kind |-> "add_pack"]
    /\ UNCHANGED <<store_vars, lt_call, obj, pack_entries>>

\* MultiPack.remove_pack: the packs after it move one position down.
remove_pack ==
    /\ \E index \in 1..Len(packs) :
           packs' = SubSeq(packs, 1, index - 1)
                        \o SubSeq(packs, index + 1, Len(packs))
    /\ call' = [kind |-> "remove_pack"]
    /\ UNCHANGED <<store_vars, lt_call, obj, pack_entries>>

\* delete_entry in one of the packs.
MultiDeleteEntry ==
    /\ \E e \in PackEntries :
           /\ e.tid \in pack_entries[e.pack_id]
           /\ pack_entries' =
                  [pack_entries EXCEPT ![e.pack_id] = @ \ {e.tid}]
    /\ call' = [kind |-> "delete_entry"]
    /\ UNCHANGED <<store_vars, lt_call, obj, packs>>

MultiInit ==
    /\ \E cls \in MultiPackLinkClasses : obj = NewMultiPackLink(cls)
    /\ call = NoCall
    /\ lt_call = NoCall
    /\ elements = [t \in StoreTypes |-> <<>>]
    /\ tid_idx_dict = <<>>
    /\ next_tid = 0
    /\ returned = <<>>
    /\ deleted = {}
    /\ packs = <<>>
    /\ pack_entries =
           [p \in PackIds |-> {e.tid : e \in {x \in PackEntries : x.pack_id = p}}]

MultiNext ==
    \/ MultiSetParent
    \/ MultiSetChild
    \/ MultiGetParent
    \/ MultiGetChild
    \/ MultiParentId
    \/ MultiChildId
    \/ MultiParentPackId
    \/ MultiChildPackId
    \/ add_pack
    \/ remove_pack
    \/ MultiDeleteEntry

SpecMulti == MultiInit /\ [][MultiNext]_vars

(***************************************************************************)
(* One Payload of a pack: its constructor, set_cache, __getstate__ and     *)
(* __setstate__.  An array has one axis, so its shape is its length.       *)
(***************************************************************************)
MaxArrayLen == 2    \* longest array given to set_cache

PayloadClasses ==
    {PayloadType, TextPayloadType, AudioPayloadType, ImagePayloadType}

RECURSIVE ArraysUpTo(_)
ArraysUpTo(n) ==
    IF n = 0 THEN {<<>>}
    ELSE ArraysUpTo(n - 1)
             \cup {Append(a, x) : a \in {b \in ArraysUpTo(n - 1) : Len(b) = n - 1},
                                  x \in 0..1}

\* The data handed to set_cache: strings, arrays, and values of other types.
CacheData ==
    {Str(t) : t \in Texts}
        \cup {NdArray(a) : a \in ArraysUpTo(MaxArrayLen)}
        \cup {Num(1), List(<<1>>), PyNone}

\* The cache_shape arguments: none given, or a shape that is not the data's.
ShapeArgs == {PyNone, Tuple(<<MaxArrayLen + 1>>)}

\* Payload(pack, payload_idx, uri) of class cls: Entry.__init__, the last
\* call that can fail in the constructor, registers the payload.
NewPayload ==
    /\ obj = NoObj
    /\ call = NoCall
    /\ UNCHANGED <<deleted, lt_call, multi_vars>>
    /\ \E cls \in PayloadClasses :
           LET res == Payload_init(cls, 0, PyNone)
           IN  /\ call' = [kind |-> "Payload", cls |-> cls,
                           raised |-> res.raised]
               /\ IF res.raised = ""
                  THEN /\ obj' = res.self
                       /\ on_entry_creation(payload_row(new_tid, res.self))
                  ELSE UNCHANGED <<obj, store_vars>>

PayloadSetCache ==
    /\ obj # NoObj
    /\ UNCHANGED <<store_vars, lt_call, multi_vars>>
    /\ \E data \in CacheData, cache_shape \in ShapeArgs :
           LET res == Payload_set_cache(obj, data, cache_shape)
           IN  /\ obj' = res.self
               /\ call' = [kind |-> "set_cache", data |-> data,
                           cache_shape |-> cache_shape, before |-> obj,
                           raised |-> res.raised]

\* __getstate__ works on a copy of the attribute dictionary.
PayloadGetState ==
    /\ obj # NoObj
    /\ call' = [kind |-> "getstate", before |-> obj,
                result |-> Payload_getstate(obj)]
    /\ UNCHANGED <<store_vars, lt_call, obj, multi_vars>>

\* __setstate__ on a new object, given the state __getstate__ returned.
PayloadSetState ==
    /\ call.kind = "getstate"
    /\ call' = [kind |-> "setstate", before |-> call.before,
                state |-> call.result,
                result |-> Payload_setstate(call.result)]
    /\ UNCHANGED <<store_vars, lt_call, obj, multi_vars>>

PayloadInit ==
    /\ elements = [t \in PayloadClasses |-> <<>>]
    /\ tid_idx_dict = <<>>
    /\ next_tid = 0
    /\ returned = <<>>
    /\ deleted = {}
    /\ lt_call = NoCall
    /\ obj = NoObj
    /\ call = NoCall
    /\ packs = <<>>
    /\ pack_entries = <<>>

PayloadNext ==
    \/ NewPayload
    \/ PayloadSetCache
    \/ PayloadGetState
    \/ PayloadSetState

SpecPayload == PayloadInit /\ [][PayloadNext]_vars

(***************************************************************************)
(* The processors of simple_processors.py on a pack with a text.  The text *)
(* is a sequence of characters; positions are 0-based as in Python.        *)
(***************************************************************************)
MaxTextLen == 4     \* longest pack text

TextChars == {"a", ".", " "}
Whitespace == {" "}

RECURSIVE TextsUpTo(_)
TextsUpTo(n) ==
    IF n = 0 THEN {<<>>}
    ELSE TextsUpTo(n - 1)
             \cup {Append(t, c) : t \in {u \in TextsUpTo(n - 1) : Len(u) = n - 1},
                                  c \in TextChars}

\* The first position from pos on whose character is in chars, or None.
RECURSIVE re_search(_, _, _)
re_search(text, pos, chars) ==
    IF pos >= Len(text) THEN None
    ELSE IF text[pos + 1] \in chars THEN pos
    ELSE re_search(text, pos + 1, chars)

\* The end of the longest run of characters of chars that starts at pos.
RECURSIVE run_end(_, _, _)
run_end(text, pos, chars) ==
    IF pos < Len(text) /\ text[pos + 1] \in chars
    THEN run_end(text, pos + 1, chars)
    ELSE pos

\* re.finditer(r"\s+", text): the matches from pos on, left to right.
RECURSIVE finditer_whitespace(_, _)
finditer_whitespace(text, pos) ==
    LET start == re_search(text, pos, Whitespace)
        end == run_end(text, start, Whitespace)
    IN  IF start = None THEN <<>>
        ELSE <<[start |-> start, end |-> end]>>
                 \o finditer_whitespace(text, end)

\* re.finditer("\\.\\s*", text): a period and the whitespace after it.
RECURSIVE finditer_period(_, _)
finditer_period(text, pos) ==
    LET start == re_search(text, pos, {"."})
        end == run_end(text, start + 1, Whitespace)
    IN  IF start = None THEN <<>>
        ELSE <<[start |-> start, end |-> end]>>
                 \o finditer_period(text, end)

\* The Entry Store as a value, for the processors that add several entries
\* in one call.
this_store ==
    [elements |-> elements, tid_idx_dict |-> tid_idx_dict,
     next_tid |-> next_tid, returned |-> returned]

\* The store once row was put into its partition under the next tid.
store_with(store, row) ==
    LET idx == insert_index(store.elements[row.type], row)
    IN  [elements |-> [store.elements EXCEPT
                          ![row.type] = InsertAt(@, idx, row)],
         tid_idx_dict |->
             (row.tid :> <<row.type, idx>>)
                 @@ Reindexed(store.tid_idx_dict, row.type, idx, 1),
         next_tid |-> store.next_tid + 1,
         returned |-> Append(store.returned, row.tid)]

\* Annotation(pack, begin, end) of class cls: the constructor registers
\* the entry in the pack.
Annotation_init(store, cls, begin, end) ==
    [store |-> store_with(store, NewRow(store.next_tid, cls, begin, end)),
     entry |-> NewRow(store.next_tid, cls, begin, end)]

\* add_entry registering the entry anew under a fresh tid.
MutAddEntryRegistersAgain(store, entry) ==
    [store |-> store_with(store, [entry EXCEPT !.tid = store.next_tid]),
     entry |-> [entry EXCEPT !.tid = store.next_tid]]

\* DataPack.add_entry(entry): an entry whose tid the store holds is
\* returned as it is.
DataPack_add_entry(store, entry) ==
    IF entry.tid \in DOMAIN store.tid_idx_dict
    THEN [store |-> store, entry |-> entry]
    ELSE [store |-> store_with(store, [entry EXCEPT !.tid = store.next_tid]),
          entry |-> [entry EXCEPT !.tid = store.next_tid]]

\* The loop of WhiteSpaceTokenizer._process over the matches.
RECURSIVE WhiteSpaceTokenizer_loop(_, _, _)
WhiteSpaceTokenizer_loop(store, matches, start) ==
    IF matches = <<>> THEN [store |-> store, start |-> start]
    ELSE LET m == Head(matches)
             token == Annotation_init(store, TokenType, start, m.start)
         IN  WhiteSpaceTokenizer_loop(
                 DataPack_add_entry(token.store, token.entry).store,
                 Tail(matches), m.end)

WhiteSpaceTokenizer_process(store, text) ==
    LET loop == WhiteSpaceTokenizer_loop(store,
                                         finditer_whitespace(text, 0), 0)
        token == Annotation_init(loop.store, TokenType, loop.start,
                                 Len(text))
    IN  IF loop.start < Len(text)
        THEN DataPack_add_entry(token.store, token.entry).store
        ELSE loop.store

\* The loop of PeriodSentenceSplitter._process over the matches.
RECURSIVE PeriodSentenceSplitter_loop(_, _, _)
PeriodSentenceSplitter_loop(store, matches, start) ==
    IF matches = <<>> THEN [store |-> store, start |-> start]
    ELSE LET m == Head(matches)
         IN  PeriodSentenceSplitter_loop(
                 Annotation_init(store, SentenceType, start, m.end).store,
                 Tail(matches), m.end)

\* PeriodSentenceSplitter._process without the sentence after the last
\* period.
MutPeriodSentenceSplitterNoTrailing(store, text) ==
    PeriodSentenceSplitter_loop(store, finditer_period(text, 0), 0).store

PeriodSentenceSplitter_process(store, text) ==
    LET loop == PeriodSentenceSplitter_loop(store,
                                            finditer_period(text, 0), 0)
        sentence == Annotation_init(loop.store, SentenceType, loop.start,
                                    Len(text))
    IN  IF loop.start < Len(text)
        THEN DataPack_add_entry(sentence.store, sentence.entry).store
        ELSE loop.store

\* The store variables take the value of store.
store_becomes(store) ==
    /\ elements' = store.elements
    /\ tid_idx_dict' = store.tid_idx_dict
    /\ next_tid' = store.next_tid
    /\ returned' = store.returned

Tokenize ==
    /\ call.kind \in {"none", "PeriodSentenceSplitter"}
    /\ store_becomes(WhiteSpaceTokenizer_process(this_store, obj.text))
    /\ call' = [kind |-> "WhiteSpaceTokenizer"]
    /\ UNCHANGED <<deleted, lt_call, obj, multi_vars>>

SplitSentences ==
    /\ call = NoCall
    /\ store_becomes(PeriodSentenceSplitter_process(this_store, obj.text))
    /\ call' = [kind |-> "PeriodSentenceSplitter"]
    /\ UNCHANGED <<deleted, lt_call, obj, multi_vars>>

\* pack.add_entry(entry) on an entry of the pack.
AddEntryAgain ==
    /\ call.kind \in {"WhiteSpaceTokenizer", "PeriodSentenceSplitter"}
    /\ \E tid \in DOMAIN tid_idx_dict :
           LET res == DataPack_add_entry(this_store, row_of(tid))
           IN  /\ store_becomes(res.store)
               /\ call' = [kind |-> "add_entry", entry |-> row_of(tid),
                           before |-> Len(elements[row_of(tid).type]),
                           result |-> res.entry]
    /\ UNCHANGED <<deleted, lt_call, obj, multi_vars>>

TextInit ==
    /\ \E text \in TextsUpTo(MaxTextLen) :
           obj = [cls |-> "forte.data.data_pack.DataPack", text |-> text]
    /\ elements = [t \in StoreTypes |-> <<>>]
    /\ tid_idx_dict = <<>>
    /\ next_tid = 0
    /\ returned = <<>>
    /\ deleted = {}
    /\ lt_call = NoCall
    /\ call = NoCall
    /\ packs = <<>>
    /\ pack_entries = <<>>

TextNext == Tokenize \/ SplitSentences \/ AddEntryAgain

SpecText == TextInit /\ [][TextNext]_vars

(***************************************************************************)
(* add_entry_raw on the store of image_annotation_test.py: the schema      *)
(* table holds the attributes of BoundingBox, and the call passes the two  *)
(* leading values of the row.                                              *)
(***************************************************************************)
MaxRawTid == 3      \* number of tids handed out by the store of the test
MaxRawValue == 2    \* largest first value of attribute_data

BoundingBoxType == "forte.data.ontology.top.BoundingBox"

\* DataStore._type_attributes as setUp registers it: the attribute names
\* of each type, in the order of their row offsets 4, 5, ...
type_attributes(type_name) ==
    IF type_name = BoundingBoxType
    THEN <<"cx", "cy", "height", "width", "grid_height", "grid_width",
           "grid_cell_h_idx", "grid_cell_w_idx">>
    ELSE <<>>

\* add_entry_raw(type_name, attribute_data, base_class) as the test calls
\* it: the values of attribute_data lead the row, the attributes of the
\* schema follow as None.
DataStore_add_entry_raw(store, type_name, attribute_data) ==
    LET row == [attributes |-> [i \in 1..Len(type_attributes(type_name))
                                   |-> None]]
                   @@ NewRow(store.next_tid, type_name,
                             attribute_data[1], attribute_data[2])
    IN  [raised |-> "", tid |-> store.next_tid,
         store |-> store_with(store, row)]

AddImageAnnotationRaw ==
    /\ next_tid < MaxRawTid
    /\ UNCHANGED <<deleted, lt_call, obj, multi_vars>>
    /\ \E type_name \in {BoundingBoxType, ImageAnnotationType},
          value \in 0..MaxRawValue :
           LET res == DataStore_add_entry_raw(this_store, type_name,
                                              <<value, None>>)
           IN  /\ store_becomes(res.store)
               /\ call' = [kind |-> "add_entry_raw",
                           type_name |-> type_name,
                           attribute_data |-> <<value, None>>,
                           before |-> num_entries(type_name),
                           raised |-> res.raised, tid |-> res.tid]

RawInit ==
    /\ elements = [t \in {BoundingBoxType, ImageAnnotationType} |-> <<>>]
    /\ tid_idx_dict = <<>>
    /\ next_tid = 0
    /\ returned = <<>>
    /\ deleted = {}
    /\ lt_call = NoCall
    /\ obj = NoObj
    /\ call = NoCall
    /\ packs = <<>>
    /\ pack_entries = <<>>

RawNext == AddImageAnnotationRaw

SpecRaw == RawInit /\ [][RawNext]_vars

(***************************************************************************)
(* BaseDataAugmentOpProcessor on a MultiPack.  The MultiPack is a record   *)
(* of its pack names, its packs (each as its pack_id, in the same order),  *)
(* the tids of the entries of each pack, and its own entries, the          *)
(* MultiPackLinks and MultiPackGroups, in the order they were added.  A    *)
(* dictionary is the sequence of its (key, value) pairs.                   *)
(***************************************************************************)
MaxMultiEntries == 1    \* most links and groups in the MultiPack at first

MultiPackType == "forte.data.multi_pack.MultiPack"

\* The MultiPack the processor is given: two packs with their entries.
NewMultiPack ==
    [cls |-> MultiPackType,
     pack_names |-> <<"src", "tgt">>,
     packs |-> <<1, 7>>,
     pack_entries |-> (1 :> {1, 2}) @@ (7 :> {1}),
     entries |-> <<>>]

AugEntries(mp) ==
    {[type |-> EntityMentionType, tid |-> t, pack_id |-> p] :
        <<p, t>> \in {pt \in (DOMAIN mp.pack_entries) \X (0..2) :
                         pt[2] \in mp.pack_entries[pt[1]]}}

\* The values of the configuration augment_pack_names.
AugmentPackNames ==
    {<<>>,
     <<<<"src", "aug_src">>>>,
     <<<<"tgt", "aug_tgt">>, <<"src", "aug_src">>>>,
     <<<<"src", "aug_src">>, <<"other", "aug_other">>>>}

\* dict.keys() and dict.get(key, default).
dict_keys(dict) == [i \in 1..Len(dict) |-> dict[i][1]]

dict_get(dict, key, default) ==
    IF \E i \in 1..Len(dict) : dict[i][1] = key
    THEN dict[CHOOSE i \in 1..Len(dict) : dict[i][1] = key][2]
    ELSE default

InSeq(x, seq) == \E i \in 1..Len(seq) : seq[i] = x

\* MultiPack.get_pack(name).pack_id and MultiPack.get_pack_index(pack_id).
MultiPack_get_pack(mp, name) ==
    mp.packs[CHOOSE i \in 1..Len(mp.packs) : mp.pack_names[i] = name]

MultiPack_get_pack_index(mp, pack_id) ==
    (CHOOSE i \in 1..Len(mp.packs) : mp.packs[i] = pack_id) - 1

\* MultiPack.add_pack_(pack, name): the pack goes to the end of the list.
MultiPack_add_pack_(mp, pack, name) ==
    [mp EXCEPT !.pack_names = Append(@, name),
               !.packs = Append(@, pack.pack_id),
               !.pack_entries = (pack.pack_id :> pack.entries) @@ @]

\* The entry of tid entry_id in the pack of the MultiPack with pack_id.
MultiPack_get_entry(mp, pack_id, entry_id) ==
    IF ~InSeq(pack_id, mp.packs) THEN Raise("ValueError")
    ELSE IF entry_id \notin mp.pack_entries[pack_id] THEN Raise("KeyError")
    ELSE Return([type |-> EntityMentionType, tid |-> entry_id,
                 pack_id |-> pack_id])

\* The constructor of a MultiPack entry registers it in the MultiPack;
\* add_entry on it afterwards registers nothing again.
MultiPack_on_entry_creation(mp, entry) ==
    [mp EXCEPT !.entries = Append(@, [tid |-> Len(mp.entries)] @@ entry)]

\* type(entry)(multi_pack, parent, child) and type(entry)(multi_pack,
\* members).
MultiPackLink_init(cls, parent, child) ==
    MultiPackLink_set_child(
        MultiPackLink_set_parent(NewMultiPackLink(cls), parent).self,
        child).self

RECURSIVE add_members(_, _)
add_members(self, members) ==
    IF members = <<>> THEN self
    ELSE add_members(MultiPackGroup_add_member(self, Head(members)).self,
                     Tail(members))

MultiPackGroup_init(cls, members) == add_members(NewGroup(cls), members)

\* The data augmentation op: the pack it makes of a pack, with a pack_id
\* and tids of its own, without the entries it dropped, and the maps
\* from the packs and entries it was given to the ones it made.
AugPackId(pack_id) == pack_id + 10
AugTid(tid) == tid + 10

perform_augmentation(mp, pack_id, dropped) ==
    [pack_id |-> AugPackId(pack_id),
     entries |-> {AugTid(t) : t \in mp.pack_entries[pack_id] \ dropped}]

get_maps(mp, pack_ids, dropped) ==
    [data_pack_map |-> [p \in pack_ids |-> AugPackId(p)],
     entry_maps |-> [p \in pack_ids |->
                        [t \in mp.pack_entries[p] \ dropped |-> AugTid(t)]]]

\* The loop of _copy_multi_pack_link_or_group over the children: the new
\* children so far, or no list once a child has no copy.
RECURSIVE new_children_of(_, _, _, _)
new_children_of(self, multi_pack, children, new_children) ==
    IF children = <<>> THEN [found |-> TRUE, new_children |-> new_children]
    ELSE LET child_entry == Head(children)
             child_pack_pid == child_entry.pack_id
         IN  IF child_pack_pid \notin DOMAIN self.data_pack_map
                    \/ child_pack_pid \notin DOMAIN self.entry_maps
             THEN [found |-> FALSE, new_children |-> <<>>]
             ELSE IF child_entry.tid
                         \notin DOMAIN self.entry_maps[child_pack_pid]
             THEN [found |-> FALSE, new_children |-> <<>>]
             ELSE new_children_of(
                      self, multi_pack, Tail(children),
                      Append(new_children,
                             MultiPack_get_entry(
                                 multi_pack,
                                 self.data_pack_map[child_pack_pid],
                                 self.entry_maps[child_pack_pid]
                                                [child_entry.tid]).value))

\* _copy_multi_pack_link_or_group giving the copy of a link the child as
\* parent and the parent as child.
MutCopyLinkSwapsEnds(self, entry, multi_pack) ==
    LET is_link == issubclass(entry.cls, MultiPackLinkType)
        children ==
            IF is_link
            THEN <<MultiPack_get_entry(multi_pack, entry.parent[1],
                                       entry.parent[2]).value,
                   MultiPack_get_entry(multi_pack, entry.child[1],
                                       entry.child[2]).value>>
            ELSE entry.members
        new == new_children_of(self, multi_pack, children, <<>>)
    IN  IF ~new.found THEN [returned |-> FALSE, multi_pack |-> multi_pack]
        ELSE [returned |-> TRUE,
              multi_pack |->
                  MultiPack_on_entry_creation(
                      multi_pack,
                      IF is_link
                      THEN MultiPackLink_init(entry.cls,
                                              new.new_children[2],
                                              new.new_children[1])
                      ELSE MultiPackGroup_init(entry.cls,
                                               new.new_children))]

BaseDataAugmentOpProcessor_copy_multi_pack_link_or_group(self, entry, multi_pack) ==
    LET is_link == issubclass(entry.cls, MultiPackLinkType)
        children ==
            IF is_link
            THEN <<MultiPack_get_entry(multi_pack, entry.parent[1],
                                       entry.parent[2]).value,
                   MultiPack_get_entry(multi_pack, entry.child[1],
                                       entry.child[2]).value>>
            ELSE entry.members
        new == new_children_of(self, multi_pack, children, <<>>)
    IN  IF ~new.found THEN [returned |-> FALSE, multi_pack |-> multi_pack]
        ELSE [returned |-> TRUE,
              multi_pack |->
                  MultiPack_on_entry_creation(
                      multi_pack,
                      IF is_link
                      THEN MultiPackLink_init(entry.cls,
                                              new.new_children[1],
                                              new.new_children[2])
                      ELSE MultiPackGroup_init(entry.cls,
                                               new.new_children))]

\* for entry in input_pack.get(cls): _copy_multi_pack_link_or_group(...),
\* the iteration going over the entries as the MultiPack holds them when
\* it gets to them.  copies is the record of the calls made.
RECURSIVE copy_all(_, _, _, _, _)
copy_all(self, multi_pack, cls, i, copies) ==
    IF i > Len(multi_pack.entries)
    THEN [multi_pack |-> multi_pack, copies |-> copies]
    ELSE IF ~issubclass(multi_pack.entries[i].cls, cls)
    THEN copy_all(self, multi_pack, cls, i + 1, copies)
    ELSE LET res == BaseDataAugmentOpProcessor_copy_multi_pack_link_or_group(
                        self, multi_pack.entries[i], multi_pack)
         IN  copy_all(self, res.multi_pack, cls, i + 1,
                      Append(copies,
                             [entry |-> multi_pack.entries[i],
                              returned |-> res.returned,
                              before |-> multi_pack.entries,
                              after |-> res.multi_pack.entries]))

RECURSIVE add_packs(_, _)
add_packs(input_pack, new_packs) ==
    IF new_packs = <<>> THEN input_pack
    ELSE add_packs(MultiPack_add_pack_(input_pack, Head(new_packs)[2],
                                       Head(new_packs)[1]),
                   Tail(new_packs))

\* The pack names _process augments.
aug_pack_names_of(input_pack, augment_pack_names) ==
    IF Len(dict_keys(augment_pack_names)) = 0 THEN input_pack.pack_names
    ELSE SelectSeq(dict_keys(augment_pack_names),
                   LAMBDA pack_name : InSeq(pack_name, input_pack.pack_names))

\* _process augmenting no pack when augment_pack_names is empty.
MutProcessAugmentsConfiguredOnly(input_pack, augment_pack_names, op) ==
    [raised |-> IF op.fails THEN "ValueError" ELSE "",
     multi_pack |-> input_pack, copies |-> <<>>,
     maps |-> get_maps(input_pack, {}, op.dropped),
     new_data_packs |-> <<>>]

\* BaseDataAugmentOpProcessor._process(input_pack) under the configuration
\* augment_pack_names, with the op failing or dropping entries as op says.
BaseDataAugmentOpProcessor_process(input_pack, augment_pack_names, op) ==
    LET aug_pack_names == aug_pack_names_of(input_pack, augment_pack_names)
        pack_ids == {MultiPack_get_pack(input_pack, aug_pack_names[i]) :
                        i \in 1..Len(aug_pack_names)}
        new_data_packs ==
            [p \in pack_ids |-> perform_augmentation(input_pack, p,
                                                     op.dropped)]
        maps == get_maps(input_pack, pack_ids, op.dropped)
        new_packs ==
            [i \in 1..Len(aug_pack_names) |->
                <<dict_get(augment_pack_names, aug_pack_names[i],
                           "augmented_" \o aug_pack_names[i]),
                  new_data_packs[MultiPack_get_pack(input_pack,
                                                    aug_pack_names[i])]>>]
        added == add_packs(input_pack, new_packs)
        links == copy_all(maps, added, MultiPackLinkType, 1, <<>>)
        groups == copy_all(maps, links.multi_pack, MultiPackGroupType, 1,
                           links.copies)
    IN  IF op.fails
        THEN [raised |-> "ValueError", multi_pack |-> input_pack,
              copies |-> <<>>, maps |-> maps,
              new_data_packs |-> new_data_packs]
        ELSE [raised |-> "", multi_pack |-> groups.multi_pack,
              copies |-> groups.copies, maps |-> maps,
              new_data_packs |-> new_data_packs]

AugAddLink ==
    /\ call = NoCall
    /\ Len(obj.entries) < MaxMultiEntries
    /\ \E parent \in AugEntries(obj), child \in AugEntries(obj) :
           obj' = MultiPack_on_entry_creation(
                      obj, MultiPackLink_init(MultiPackLinkType, parent,
                                              child))
    /\ UNCHANGED <<store_vars, lt_call, call, multi_vars>>

AugAddGroup ==
    /\ call = NoCall
    /\ Len(obj.entries) < MaxMultiEntries
    /\ \E first \in AugEntries(obj), second \in AugEntries(obj) :
           obj' = MultiPack_on_entry_creation(
                      obj, MultiPackGroup_init(MultiPackGroupType,
                                               <<first, second>>))
    /\ UNCHANGED <<store_vars, lt_call, call, multi_vars>>

AugProcess ==
    /\ call = NoCall
    /\ UNCHANGED <<store_vars, lt_call, multi_vars>>
    /\ \E augment_pack_names \in AugmentPackNames,
          fails \in BOOLEAN, dropped \in {{}, {2}} :
           LET res == BaseDataAugmentOpProcessor_process(
                          obj, augment_pack_names,
                          [fails |-> fails, dropped |-> dropped])
           IN  /\ obj' = res.multi_pack
               /\ call' = [kind |-> "_process",
                           augment_pack_names |-> augment_pack_names,
                           before |-> obj, raised |-> res.raised,
                           maps |-> res.maps,
                           new_data_packs |-> res.new_data_packs,
                           copies |-> res.copies]

AugInit ==
    /\ obj = NewMultiPack
    /\ call = NoCall
    /\ lt_call = NoCall
    /\ elements = [t \in StoreTypes |-> <<>>]
    /\ tid_idx_dict = <<>>
    /\ next_tid = 0
    /\ returned = <<>>
    /\ deleted = {}
    /\ packs = <<>>
    /\ pack_entries = <<>>

AugNext == AugAddLink \/ AugAddGroup \/ AugProcess

SpecAug == AugInit /\ [][AugNext]_vars

(***************************************************************************)
(* Properties.                                                             *)
(***************************************************************************)
Range(seq) == {seq[i] : i \in 1..Len(seq)}

LiveTids == DOMAIN tid_idx_dict

\* C1: for any two Annotation entries a and b, and any two AudioAnnotation
\* entries, a < b holds exactly when a.begin < b.begin, or the begins are
\* equal and a.end < b.end, or both offsets are equal and the type name of a
\* sorts before the type name of b.
C1_ThreeLevelOrder ==
    lt_call.kind # "none" =>
        LET a == lt_call.self
            b == lt_call.other
        IN  lt_call.result <=>
                \/ a.begin < b.begin
                \/ a.begin = b.begin /\ a.end < b.end
                \/ a.begin = b.begin /\ a.end = b.end /\ StrLt(a.type, b.type)

\* Two annotations with the same offsets, the type name of the first a
\* proper prefix of the type name of the second, compared by a < b.
C1_Witness ==
    /\ lt_call.kind = "Annotation"
    /\ lt_call.self.begin = lt_call.other.begin
    /\ lt_call.self.end = lt_call.other.end
    /\ Len(lt_call.self.type) < Len(lt_call.other.type)
    /\ lt_call.self.type
           = SubSeq(lt_call.other.type, 1, Len(lt_call.self.type))
    /\ lt_call.result

\* C2: after delete_entry(t) succeeded, get_entry(t) fails with
\* UnknownIdError in every later state, whatever entries were added and
\* deleted since.
C2_DeletedStaysUnknown ==
    \A t \in deleted : get_entry(t).raised = "UnknownIdError"

\* A tid was deleted, a later tid was handed out and is live.
C2_Witness ==
    \E t \in deleted : \E u \in LiveTids :
        u > t /\ get_entry(u).raised = ""

\* The arguments add_entry_raw is called with.
AddArgs ==
    {<<LinkType, None, None>>}
        \cup {<<type_name, span[1], span[2]>> :
                  type_name \in {SentenceType, TokenType}, span \in Spans}

\* C3: each successful add_entry_raw(type_name, ...) increases
\* num_entries(type_name) by exactly 1, each successful delete_entry of an
\* entry of a type decreases num_entries of that type by exactly 1, and
\* either leaves num_entries of every other type unchanged.
C3_CountsChangeByOne ==
    [][/\ \A args \in AddArgs :
              add_entry_raw(args[1], args[2], args[3]) =>
                  \A t \in StoreTypes :
                      num_entries(t)' = num_entries(t)
                                          + (IF t = args[1] THEN 1 ELSE 0)
       /\ \A tid \in LiveTids :
              delete_entry(tid) =>
                  \A t \in StoreTypes :
                      num_entries(t)' = num_entries(t)
                          - (IF t = tid_idx_dict[tid][1] THEN 1 ELSE 0)
      ]_vars

\* Entries were added to two partitions and one entry was deleted.
C3_Witness ==
    /\ Cardinality(deleted) = 1
    /\ num_entries(TokenType) = 1
    /\ num_entries(LinkType) = 1

\* C4: delete_entry(t) leaves every other live tid resolvable: get_entry(u)
\* of each tid u # t that was live returns the same attribute values as
\* before, and the remaining rows of every partition keep their relative
\* order.
C4_DeleteKeepsOthers ==
    [][\A t \in LiveTids :
           delete_entry(t) =>
               /\ \A u \in LiveTids \ {t} : get_entry(u)' = get_entry(u)
               /\ \A type_name \in StoreTypes :
                      LET kept(row) == row.tid # t
                      IN  elements'[type_name]
                              = SelectSeq(elements[type_name], kept)
      ]_vars

\* An entry was deleted from a store that still holds two entries of one
\* type.
C4_Witness ==
    /\ deleted # {}
    /\ \E type_name \in StoreTypes :
           /\ Len(elements[type_name]) = 2
           /\ \A i \in 1..2 :
                  get_entry(elements[type_name][i].tid).row
                      = elements[type_name][i]

\* C5: every tid add_entry_raw returns differs from every tid the store
\* returned earlier, the tids of entries deleted since included.
C5_TidsNeverReused ==
    \A i \in 1..Len(returned) : \A j \in 1..Len(returned) :
        i # j => returned[i] # returned[j]

\* Every tid of the pack was handed out, and an entry was deleted.
C5_Witness ==
    /\ Len(returned) = MaxTid
    /\ deleted # {}
    /\ LiveTids # {}

\* The place of a tid in the order of insertion.
insertion_rank(tid) == CHOOSE k \in 1..Len(returned) : returned[k] = tid

\* C6: after any sequence of add_entry_raw and delete_entry, every
\* Annotation-like partition is sorted ascending by (begin, end), and every
\* other partition holds its rows in insertion order.
C6_PartitionsOrdered ==
    \A type_name \in StoreTypes :
        LET rows == elements[type_name]
        IN  \A i \in 1..Len(rows) : \A j \in 1..Len(rows) :
                i < j =>
                    IF is_annotation(type_name)
                    THEN \/ rows[i].begin < rows[j].begin
                         \/ /\ rows[i].begin = rows[j].begin
                            /\ rows[i].end <= rows[j].end
                    ELSE insertion_rank(rows[i].tid)
                             < insertion_rank(rows[j].tid)

\* An annotation entered its partition before a row inserted earlier, and
\* an entry was deleted.
C6_Witness ==
    /\ deleted # {}
    /\ \E type_name \in {SentenceType, TokenType} :
           /\ Len(elements[type_name]) = 2
           /\ elements[type_name][1].tid > elements[type_name][2].tid

\* C7: all_entries(type_name) yields exactly the rows held in the partition
\* of the type, in partition order, and num_entries(type_name) is the
\* number of rows it yields.
C7_AllEntriesIsPartition ==
    \A type_name \in StoreTypes :
        /\ all_entries(type_name) = elements[type_name]
        /\ num_entries(type_name) = Len(all_entries(type_name))

\* A partition of two rows, after a deletion.
C7_Witness ==
    /\ deleted # {}
    /\ Len(all_entries(TokenType)) = 2

\* The types of annotations a coverage query asks for.
QueryTypes == {AnnotationType, SentenceType, TokenType}

\* C8: pack.get(entry_type, range_entry), and range_entry.get(entry_type),
\* yields exactly the entries of that type whose span is contained within
\* the span of the range entry, each once, in ascending Annotation order.
C8_CoverageQuery ==
    \A range_entry \in AllRows : \A entry_type \in QueryTypes :
    \A include_sub_type \in BOOLEAN :
        is_annotation(range_entry.type) =>
            LET got == Annotation_get(range_entry, entry_type,
                                      include_sub_type)
                of_type(row) == IF include_sub_type
                                THEN issubclass(row.type, entry_type)
                                ELSE row.type = entry_type
                contained == {row \in AllRows :
                                 /\ of_type(row)
                                 /\ range_entry.begin <= row.begin
                                 /\ row.end <= range_entry.end}
            IN  /\ got = DataPack_get(entry_type, range_entry,
                                      include_sub_type)
                /\ Range(got) = contained
                /\ Len(got) = Cardinality(contained)
                /\ \A i \in 1..Len(got) : \A j \in 1..Len(got) :
                       i < j => ~row_lt(got[j], got[i])

\* A sentence covering one token and not covering another.
C8_Witness ==
    \E s \in Range(elements[SentenceType]) :
        /\ Len(elements[TokenType]) = 2
        /\ Len(Annotation_get(s, TokenType, TRUE)) = 1
        /\ \E t \in Range(elements[TokenType]) : t.begin < s.begin

\* C9: set_parent and set_child (on Link and MultiPackLink) and add_member
\* (on Group and MultiPackGroup), called with an entry that is no instance
\* of the declared ParentType, ChildType or MemberType, raise TypeError and
\* leave the parent field, the child field and the member list as they were.
C9_TypeMismatchChangesNothing ==
    [][LET c == call'
       IN  /\ (c.kind = "set_parent"
                  /\ ~isinstance(c.arg, ParentType(obj.cls)))
                  => (c.raised = "TypeError" /\ obj' = obj)
           /\ (c.kind = "set_child"
                  /\ ~isinstance(c.arg, ChildType(obj.cls)))
                  => (c.raised = "TypeError" /\ obj' = obj)
           /\ (c.kind = "add_member"
                  /\ ~isinstance(c.arg, MemberType(obj.cls)))
                  => (c.raised = "TypeError" /\ obj' = obj)
      ]_vars

\* A Dependency whose parent is set was handed a Sentence as parent, which
\* raised TypeError.
C9_Witness ==
    /\ obj.cls = DependencyType
    /\ obj.parent = 1
    /\ call.kind = "set_parent"
    /\ call.arg.type = SentenceType
    /\ call.raised = "TypeError"

\* C10: deletion does not cascade: after delete_entry(p) of an entry p that
\* a Link holds as parent or child, the Link is still in the store and
\* still holds the tid of p, and get_parent or get_child, which resolves
\* the tid through the pack at the call, fails with UnknownIdError.
C10_DeletionDoesNotCascade ==
    [][\A p \in LiveTids :
           delete_entry(p) =>
               \A l \in LiveTids \ {p} :
                   issubclass(row_of(l).type, LinkType) =>
                       /\ row_of(l).parent = p =>
                              /\ get_entry(l)'.raised = ""
                              /\ get_entry(l)'.row.parent = p
                              /\ Link_get_parent(link_of(get_entry(l).row))'
                                     .raised = "UnknownIdError"
                       /\ row_of(l).child = p =>
                              /\ get_entry(l)'.raised = ""
                              /\ get_entry(l)'.row.child = p
                              /\ Link_get_child(link_of(get_entry(l).row))'
                                     .raised = "UnknownIdError"
      ]_vars

\* A live link holds as parent the tid of a deleted entry.
C10_Witness ==
    \E l \in LiveTids :
        /\ issubclass(row_of(l).type, LinkType)
        /\ row_of(l).parent \in deleted
        /\ Link_get_parent(link_of(row_of(l))).raised = "UnknownIdError"

\* The links among the live entries of the pack.
LiveLinks == {l \in LiveTids : issubclass(row_of(l).type, LinkType)}

\* C11: once the parent (or the child) of a Link holds a tid, it holds a tid
\* in every later state: no step of set_parent, set_child, get_parent,
\* get_child or delete_entry of the pointee sets it back to None.
C11_ReferenceNeverUnset ==
    [][\A l \in LiveLinks :
           l \in LiveTids' =>
               /\ row_of(l).parent # None => row_of(l)'.parent # None
               /\ row_of(l).child # None => row_of(l)'.child # None
      ]_vars

\* The pointee of a link was deleted, get_parent of the link then raised
\* UnknownIdError, and the link still holds the tid.
C11_Witness ==
    /\ call.kind = "get_parent"
    /\ call.raised = "UnknownIdError"
    /\ \E l \in LiveLinks :
           /\ row_of(l).parent \in deleted
           /\ row_of(l).child = None

\* C12: a Box construction that raises leaves the Entry Store of the pack
\* holding exactly the entries it held before the call.
C12_FailedConstructionRegistersNothing ==
    [][(call'.kind = "Box" /\ call'.raised # "") =>
           /\ elements' = elements
           /\ tid_idx_dict' = tid_idx_dict
      ]_vars

\* C13: Box(pack, tl_point, br_point) succeeds exactly when no coordinate
\* is negative, y0 < y1 and x0 < x1, and raises ValueError otherwise; a box
\* that was constructed has height y1 - y0 > 0, width x1 - x0 > 0 and area
\* height * width > 0.
C13_BoxCornersOrdered ==
    call.kind = "Box" =>
        LET y0 == call.tl_point[1]
            x0 == call.tl_point[2]
            y1 == call.br_point[1]
            x1 == call.br_point[2]
            box == call.result
        IN  /\ call.raised = "" <=>
                   /\ y0 >= 0 /\ x0 >= 0 /\ y1 >= 0 /\ x1 >= 0
                   /\ y0 < y1 /\ x0 < x1
            /\ call.raised # "" => call.raised = "ValueError"
            /\ call.raised = "" =>
                   /\ box.height = y1 - y0 /\ box.height > 0
                   /\ box.width = x1 - x0 /\ box.width > 0
                   /\ Box_area(box) = box.height * box.width
                   /\ Box_area(box) > 0
                   /\ Box_corners(box)
                          = <<<<y0, x0>>, <<y0, x1>>, <<y1, x0>>, <<y1, x1>>>>

\* A box two rows high and three columns wide was constructed.
C13_Witness ==
    /\ call.kind = "Box"
    /\ call.raised = ""
    /\ call.result.height = 2
    /\ call.result.width = 3
    /\ Box_area(call.result) = 6

\* The rectangle two boxes have in common: its width and height, negative
\* when the boxes are apart.
common_width(a, b) == min(a.x1, b.x1) - (IF a.x0 < b.x0 THEN b.x0 ELSE a.x0)
common_height(a, b) == min(a.y1, b.y1) - (IF a.y0 < b.y0 THEN b.y0 ELSE a.y0)

\* The boxes touch in an edge or a corner and share no area.
share_boundary_only(a, b) ==
    /\ common_width(a, b) >= 0
    /\ common_height(a, b) >= 0
    /\ common_width(a, b) = 0 \/ common_height(a, b) = 0

share_area(a, b) == common_width(a, b) > 0 /\ common_height(a, b) > 0

\* C14: is_overlapped returns false for two boxes on the same image whose
\* boundaries share only an edge or only a corner.
C14_TouchingIsNotOverlapped ==
    (call.kind = "is_overlapped" /\ share_boundary_only(call.self, call.other))
        => (call.raised = "" /\ call.result = FALSE)

\* C15: compute_iou returns 0 for two boxes that share no area: boxes that
\* are apart, or that share only an edge or a corner.
C15_IouZeroWithoutSharedArea ==
    (call.kind = "compute_iou" /\ ~share_area(call.self, call.other))
        => (call.raised = "" /\ call.result.num = 0)

\* C16: for two boxes inside the image that share area, compute_iou
\* returns the area of the rectangle they have in common divided by the
\* sum of their areas less that area.
C16_IouIsIntersectionOverUnion ==
    (call.kind = "compute_iou" /\ share_area(call.self, call.other)) =>
        LET intersection == common_width(call.self, call.other)
                                * common_height(call.self, call.other)
            union == Box_area(call.self) + Box_area(call.other)
                         - intersection
        IN  /\ call.raised = ""
            /\ call.result.num * union = intersection * call.result.den

\* get_members of the group object, by its class.
get_members(self) ==
    IF self.cls \in GroupClasses THEN Group_get_members(self)
    ELSE MultiPackGroup_get_members(self)

C18_RoundTripKeepsPack ==
    call.kind = "from_string" =>
        LET entries == call.json.py_state.data_store.py_state.entries
        IN  /\ DOMAIN call.result.tid_idx_dict = DOMAIN tid_idx_dict
            /\ call.result.tid_idx_dict = tid_idx_dict
            /\ call.result.elements = elements
            /\ DataPack_text(call.result.text_payloads)
                   = DataPack_text(text_payloads)
            /\ obj # NoObj =>
                   \E i \in 1..Len(entries[TextPayloadType]) :
                       \E j \in 1..Len(entries[TextPayloadType][i]) :
                           entries[TextPayloadType][i][j]
                               = Str(DataPack_text(text_payloads))

\* C19: get_parent and get_child of a MultiPackLink whose parent and child
\* were set return the entries they were set from whenever the pack of the
\* entry is in the MultiPack and the tid is in that pack, and raise
\* otherwise; set_parent and set_child accept an entry of the right type
\* whether its pack is in the MultiPack or not.
C19_CrossPackResolutionIsLazy ==
    LET InMultiPack(ref) == \E i \in 1..Len(packs) : packs[i] = ref[1]
        Resolves(ref) == InMultiPack(ref) /\ ref[2] \in pack_entries[ref[1]]
        Got(ref) ==
            IF Resolves(ref)
            THEN /\ call.raised = ""
                 /\ call.result = [pack_id |-> ref[1], tid |-> ref[2]]
            ELSE call.raised # ""
    IN  /\ (call.kind = "get_parent" /\ obj.parent # <<None, None>>)
               => Got(obj.parent)
        /\ (call.kind = "get_child" /\ obj.child # <<None, None>>)
               => Got(obj.child)
        /\ (call.kind = "set_parent"
               /\ isinstance(call.arg, ParentType(obj.cls)))
               => /\ call.raised = ""
                  /\ obj.parent = <<call.arg.pack_id, call.arg.tid>>
        /\ (call.kind = "set_child"
               /\ isinstance(call.arg, ChildType(obj.cls)))
               => /\ call.raised = ""
                  /\ obj.child = <<call.arg.pack_id, call.arg.tid>>

\* The parent, in the second pack of the MultiPack, is resolved while the
\* pack of the child is not in the MultiPack.
C19_Witness ==
    /\ call.kind = "get_parent"
    /\ call.raised = ""
    /\ call.result = [pack_id |-> 7, tid |-> 2]
    /\ packs = <<1, 7>>
    /\ obj.child = <<0, 1>>

\* C20: on a MultiPackLink whose parent was set from entry e, parent_id
\* returns e.tid and parent_pack_id returns e.pack_id; whose child was set
\* from e, child_id returns e.tid and child_pack_id returns e.pack_id;
\* whatever the pack_id and the position of the pack in the MultiPack.
C20_IdsOfTheLinkedEntries ==
    LET InMultiPack(ref) == \E i \in 1..Len(packs) : packs[i] = ref[1]
    IN  /\ (call.kind = "parent_id" /\ obj.parent # <<None, None>>)
               => (call.raised = "" /\ call.result = obj.parent[2])
        /\ (call.kind = "child_id" /\ obj.child # <<None, None>>)
               => (call.raised = "" /\ call.result = obj.child[2])
        /\ (call.kind = "parent_pack_id" /\ obj.parent # <<None, None>>
               /\ InMultiPack(obj.parent))
               => (call.raised = "" /\ call.result = obj.parent[1])
        /\ (call.kind = "child_pack_id" /\ obj.child # <<None, None>>
               /\ InMultiPack(obj.child))
               => (call.raised = "" /\ call.result = obj.child[1])

\* C21: constructing a Payload whose class is none of TextPayload,
\* AudioPayload and ImagePayload raises ValueError and registers no entry
\* in the pack.
C21_UnsupportedModalityRaisesValueError ==
    (call.kind = "Payload"
        /\ ~issubclass(call.cls, TextPayloadType)
        /\ ~issubclass(call.cls, AudioPayloadType)
        /\ ~issubclass(call.cls, ImagePayloadType))
        => /\ call.raised = "ValueError"
           /\ tid_idx_dict = <<>>
           /\ \A t \in DOMAIN elements : elements[t] = <<>>

\* C25: __setstate__ given the state __getstate__ returned yields a payload
\* with the same modality, the same cache (a string as it was, an array as
\* an array of the same values) and the same embedding; __getstate__ leaves
\* the payload as it was.
C25_StateRoundTripRestoresPayload ==
    /\ call.kind = "getstate" => obj = call.before
    /\ call.kind = "setstate" =>
           /\ call.result.modality = call.before.modality
           /\ call.result.cache = call.before.cache
           /\ call.result.embedding = call.before.embedding

\* C28: set_cache given data that is neither a string nor an array raises
\* ValueError and leaves cache and cache_shape as they were; after a
\* set_cache that returned, cache_shape is the shape of the data stored,
\* ndarray.shape or (len(text),), whatever cache_shape was given.
C28_SetCacheValidatesBeforeStoring ==
    call.kind = "set_cache" =>
        IF call.data.kind \notin {"str", "ndarray"}
        THEN /\ call.raised = "ValueError"
             /\ obj.cache = call.before.cache
             /\ obj.cache_shape = call.before.cache_shape
        ELSE /\ call.raised = ""
             /\ obj.cache = call.data
             /\ obj.cache_shape =
                    Tuple(<<IF call.data.kind = "str"
                            THEN Len(call.data.value)
                            ELSE Len(call.data.items)>>)

\* C27: a Box that init_from_center_n_shape(pack, cy, cx, height, width)
\* returned has the height and the width given and the center (cy, cx),
\* for odd and for even heights and widths.
C27_BoxFromCenterKeepsCenterAndShape ==
    (call.kind = "init_from_center_n_shape" /\ call.raised = "") =>
        /\ call.result.height = call.height
        /\ call.result.width = call.width
        /\ Box_center(call.result) = <<call.cy, call.cx>>

\* C22: add_entry of an entry the pack already holds returns that entry
\* with its tid and leaves the number of entries of its type as it was; so
\* the tokenizer, which hands each Token its constructor registered to
\* add_entry, leaves each of them in the store once.
C22_AddEntryIsIdempotent ==
    /\ call.kind = "add_entry" =>
           /\ call.result = call.entry
           /\ call.entry.tid \in DOMAIN tid_idx_dict
           /\ row_of(call.entry.tid) = call.entry
           /\ Len(elements[call.entry.type]) = call.before
    /\ call.kind = "WhiteSpaceTokenizer" =>
           /\ \A i, j \in 1..Len(elements[TokenType]) :
                  elements[TokenType][i].tid = elements[TokenType][j].tid
                      => i = j
           /\ Len(elements[TokenType]) =
                  Cardinality({tid \in DOMAIN tid_idx_dict :
                                  tid_idx_dict[tid][1] = TokenType})

C22_Witness ==
    /\ call.kind = "add_entry"
    /\ call.entry.type = TokenType
    /\ call.before = 2
    /\ Len(elements[TokenType]) = 2

\* C29: the Tokens WhiteSpaceTokenizer creates are the maximal runs of
\* characters that are no whitespace: no token is empty or holds
\* whitespace, no two overlap, each ends where the text or a whitespace
\* character bounds it, and each character that is no whitespace lies in
\* exactly one token; also for a text that starts or ends with whitespace.
C29_TokensAreMaximalRuns ==
    call.kind = "WhiteSpaceTokenizer" =>
        LET text == obj.text
            tokens == elements[TokenType]
            Covers(k, i) == tokens[k].begin <= i /\ i < tokens[k].end
        IN  /\ \A k \in 1..Len(tokens) :
                   /\ tokens[k].begin < tokens[k].end
                   /\ \A i \in tokens[k].begin..(tokens[k].end - 1) :
                          text[i + 1] \notin Whitespace
                   /\ tokens[k].begin = 0
                          \/ text[tokens[k].begin] \in Whitespace
                   /\ tokens[k].end = Len(text)
                          \/ text[tokens[k].end + 1] \in Whitespace
            /\ \A i \in 0..(Len(text) - 1) :
                   text[i + 1] \notin Whitespace =>
                       Cardinality({k \in 1..Len(tokens) : Covers(k, i)}) = 1

\* C30: for a text that is not empty the Sentences PeriodSentenceSplitter
\* creates tile the text: the first begins at 0, each next one begins where
\* the one before ends, the last ends at len(text), none is empty, and each
\* of them, made in the loop or after it, is in the pack once.
C30_SentencesTileTheText ==
    (call.kind = "PeriodSentenceSplitter" /\ obj.text # <<>>) =>
        LET text == obj.text
            sentences == elements[SentenceType]
            matches == finditer_period(text, 0)
            trailing == IF matches = <<>> THEN TRUE
                        ELSE matches[Len(matches)].end < Len(text)
        IN  /\ Len(sentences) >= 1
            /\ sentences[1].begin = 0
            /\ sentences[Len(sentences)].end = Len(text)
            /\ \A k \in 1..Len(sentences) :
                   sentences[k].begin < sentences[k].end
            /\ \A k \in 1..(Len(sentences) - 1) :
                   sentences[k + 1].begin = sentences[k].end
            /\ Len(sentences) = Len(matches) + (IF trailing THEN 1 ELSE 0)
            /\ \A j, k \in 1..Len(sentences) :
                   sentences[j].tid = sentences[k].tid => j = k
            /\ \A k \in 1..Len(sentences) :
                   /\ sentences[k].tid \in DOMAIN tid_idx_dict
                   /\ tid_idx_dict[sentences[k].tid] = <<SentenceType, k - 1>>

\* Two sentences made in the loop and one after it.
C30_Witness ==
    /\ call.kind = "PeriodSentenceSplitter"
    /\ obj.text = <<".", " ", ".", "a">>
    /\ Len(elements[SentenceType]) = 3

\* C23: add_entry_raw given a number of attribute values that is not the
\* number of attributes the schema table holds for the type raises
\* SchemaError, adds no row to the partition and registers no tid.
C23_ArityMismatchRaisesSchemaError ==
    (call.kind = "add_entry_raw"
        /\ Len(call.attribute_data) # Len(type_attributes(call.type_name)))
        => /\ call.raised = "SchemaError"
           /\ num_entries(call.type_name) = call.before
           /\ call.tid \notin DOMAIN tid_idx_dict

\* C24: after a _process that returned, each augmented pack name n has
\* its augmented pack in the MultiPack under the name augment_pack_names
\* gives for n, or under "augmented_" + n where it gives none; with an
\* empty augment_pack_names every pack of the input is augmented; and the
\* packs of the input are still there under their names.
C24_AugmentedPacksAreAdded ==
    (call.kind = "_process" /\ call.raised = "") =>
        LET before == call.before
            config == call.augment_pack_names
            Configured(n) == \E i \in 1..Len(config) : config[i][1] = n
            Augmented(n) ==
                /\ InSeq(n, before.pack_names)
                /\ config = <<>> \/ Configured(n)
            OutputName(n) ==
                IF Configured(n)
                THEN config[CHOOSE i \in 1..Len(config) : config[i][1] = n][2]
                ELSE "augmented_" \o n
        IN  /\ \A n \in {"src", "tgt", "other"} :
                   Augmented(n) =>
                       \E i \in 1..Len(obj.packs) :
                           /\ obj.pack_names[i] = OutputName(n)
                           /\ obj.packs[i] =
                                  AugPackId(MultiPack_get_pack(before, n))
                           /\ obj.packs[i] =
                                  call.new_data_packs[
                                      MultiPack_get_pack(before, n)].pack_id
            /\ \A i \in 1..Len(before.packs) :
                   /\ obj.pack_names[i] = before.pack_names[i]
                   /\ obj.packs[i] = before.packs[i]

\* Both packs augmented under the default names.
C24_Witness ==
    /\ call.kind = "_process"
    /\ call.raised = ""
    /\ call.augment_pack_names = <<>>
    /\ obj.pack_names = <<"src", "tgt", "augmented_src", "augmented_tgt">>
    /\ obj.packs = <<1, 7, 11, 17>>

====
